---- MODULE Spec2Model ----
(***************************************************************************)
(* Session lifecycle, background sync-task lifecycle and registration      *)
(* negotiation of the icq26a chat client backend                           *)
(* (src-tauri/src/commands.rs, src-tauri/src/matrix_client.rs).            *)
(*                                                                         *)
(* Every tauri command is an async function run on a multi-threaded        *)
(* runtime, so several commands may be in progress at once.  A command is  *)
(* modelled as a process that walks through the command's accesses to the  *)
(* shared state (the client mutex, the session file, the tracked sync      *)
(* tasks) and its network awaits, one action per access or await.          *)
(* The filesystem itself is taken to be reliable (create_dir_all and       *)
(* fs::write do not fail).                                                 *)
(***************************************************************************)
EXTENDS Integers, Sequences, FiniteSets, TLC

\* ---------------------------------------------------------------- bounds
MaxConcCmds == 3     \* commands begun in one run of concurrent commands
MaxSeqCmds == 4      \* commands begun in one run of sequential commands
MaxFlows == 2        \* flows listed in a registration challenge
MaxStages == 2       \* stages listed in one flow
MaxOpSecs == 12      \* seconds a heartbeat-wrapped operation may take
MaxSyncCmds == 4     \* commands begun in one run of the sync loop's model
MaxRounds == 2       \* sync rounds in one run
MaxBatch == 3        \* events in one fetched history batch
MaxBody == 6         \* characters of a message body
MaxQuoted == 2       \* quoted lines after the header of a reply fallback
MaxRef == 4          \* characters of a media reference after its scheme
MaxLatency == 4      \* seconds until a presence request is answered
MaxVerifyCmds == 3   \* commands begun in one run of the verification model
MaxDrivers == 1      \* driver tasks spawned for the flow in one run
MaxHandleCmds == 2   \* commands begun in one run of the handle-requiring commands
MaxPushes == 503     \* pushes made to the log in one run
MaxTaskCmds == 2     \* commands begun in one run of the background tasks' model
MaxPolls == 3        \* polls of the room-list poller in one run
MaxLockCmds == 3     \* commands begun in one run of the two-lock model
MaxAccepts == 2      \* accept_verification calls (and drivers) for one flow

\* Two commands may be in progress at the same time.
Procs == {1, 2}
Users == {"@alice:hs", "@bob:hs"}

\* ------------------------------------------------------- the session file
\* Contents of <data_dir>/session.json: absent, not parseable as a
\* PersistedSession, or a PersistedSession naming a user id.  A file whose
\* user id does not parse as a Matrix user id can only come from outside.
Absent == "absent"
Corrupt == "corrupt"
BadUserId == "not-a-user-id"
FileStates == {Absent, Corrupt, BadUserId} \cup Users

\* ------------------------------------------------------------ the handle
\* MatrixState.client : Arc<Mutex<Option<Client>>>.  NoClient is None.
NoClient == [user |-> "", conn |-> 0]

\* ------------------------------------------------------------- responses
DUMMY == "m.login.dummy"
EMAIL == "m.login.email.identity"
Stages == {DUMMY, EMAIL}
NoToken == "no-session-token"
Tokens == {NoToken, "uiaa-session"}

\* A JSON value that is either an array (isArray, items) or something else.
NotArray == [isArray |-> FALSE, items |-> <<>>]
Arr(s) == [isArray |-> TRUE, items |-> s]

SeqsUpTo(S, n) == UNION {[1..k -> S] : k \in 0..n}

StageLists == {NotArray} \cup {Arr(s) : s \in SeqsUpTo(Stages, MaxStages)}
FlowLists == {NotArray} \cup {Arr(s) : s \in SeqsUpTo(StageLists, MaxFlows)}

VARIABLES
    client,      \* the Protocol Session Handle (Option<Client>)
    lockHolder,  \* process holding the client mutex, 0 when free
    file,        \* contents of the session file
    running,     \* spawned poller / sync-loop tasks that are not aborted
    tracked,     \* ids of the JoinHandles held in MatrixState.sync_tasks
    nextConn,    \* connections built so far + 1
    syncCalls,   \* start_sync invocations that cloned the client so far
    pc,          \* per process: position inside its command, or "idle"
    local,       \* per process: the command's local variables
    result,      \* per process: what its last command returned
    budget,      \* commands that may still begin in this run
    observe,     \* whether a returned command's locals are kept for inspection
    cleared,     \* history: connections cleared by logout / disconnect
    sess,        \* history: last session-changing command that returned
    saved,       \* history: the user whose session was last persisted and
                 \* not since removed by a logout ("" when none)
    hb,          \* one call of with_heartbeat: clock, locals, emitted notices
    fx,          \* one application of a function: its name, input and output
    sy,          \* the sync loops: registered handlers, rounds, deliveries
    vf,          \* one verification flow: its state in the SDK, the driver
                 \* tasks spawned for it, the notifications emitted
    lg,          \* the ServerLog: its entries and the pushes made so far
    pl,          \* the room-list poller: the set it remembers, its polls
                 \* and the notifications it emitted
    mx           \* process holding the sync_tasks mutex, 0 when free

\* The state the session commands work on, and the rest.
sessionVars == <<client, lockHolder, file, running, tracked, nextConn,
                 syncCalls, pc, local, result, budget, observe, cleared,
                 sess, saved>>
otherVars == <<hb, fx, sy, vf, lg, pl, mx>>
vars == <<sessionVars, otherVars>>

\* An answer to a registration request: the request timed out, failed in
\* transport, or got an HTTP response (status, whether the body is JSON, the
\* challenge's flows and session, and what a success body carries).
NoResp == [kind |-> "none", status |-> 0, json |-> FALSE, flows |-> NotArray,
           session |-> NoToken, body |-> "none"]
Http(st, js, fl, se, bd) ==
    [kind |-> "http", status |-> st, json |-> js, flows |-> fl,
     session |-> se, body |-> bd]
Bodies == {"complete", "missing-field", "bad-user-id"}

\* Answers to the first request, for challenges drawn from FL.
FirstResponses(FL) ==
    {[NoResp EXCEPT !.kind = "timeout"], [NoResp EXCEPT !.kind = "transport"]}
    \cup {Http(st, FALSE, NotArray, NoToken, "none") : st \in {200, 401, 403}}
    \cup {Http(200, TRUE, NotArray, NoToken, b) : b \in Bodies}
    \cup {Http(403, TRUE, NotArray, NoToken, "none")}
    \cup {Http(401, TRUE, fl, se, "none") : fl \in FL, se \in Tokens}

\* Answers to the retry.
RetryResponses ==
    {[NoResp EXCEPT !.kind = "timeout"], [NoResp EXCEPT !.kind = "transport"]}
    \cup {Http(st, FALSE, NotArray, NoToken, "none") : st \in {200, 401, 403}}
    \cup {Http(200, TRUE, NotArray, NoToken, b) : b \in Bodies}
    \cup {Http(st, TRUE, NotArray, NoToken, "none") : st \in {401, 403}}

\* The challenges the concurrent specification draws from.
FewFlowLists == {NotArray, Arr(<<Arr(<<DUMMY>>)>>), Arr(<<Arr(<<EMAIL>>)>>)}

NoLocal == [user |-> "", conn |-> 0, call |-> 0, aborted |-> FALSE,
            remote |-> "none", sent |-> <<>>, first |-> NoResp,
            retry |-> NoResp, finish |-> "none"]
NoResult == [cmd |-> "none", ok |-> FALSE, val |-> ""]
NoSess == [kind |-> "none", user |-> ""]

InitWith(n, obs) ==
    /\ client = NoClient
    /\ lockHolder = 0
    /\ file \in FileStates
    /\ running = {}
    /\ tracked = {}
    /\ nextConn = 1
    /\ syncCalls = 0
    /\ pc = [p \in Procs |-> "idle"]
    /\ local = [p \in Procs |-> NoLocal]
    /\ result = [p \in Procs |-> NoResult]
    /\ budget = n
    /\ observe = obs
    /\ cleared = {}
    /\ sess = NoSess
    /\ saved = IF file \in Users THEN file ELSE ""

\* matrix_login has returned Ok for u, and nothing else has run.
LoggedIn(u, n) ==
    /\ client = [user |-> u, conn |-> 1]
    /\ lockHolder = 0
    /\ file = u
    /\ running = {}
    /\ tracked = {}
    /\ nextConn = 2
    /\ syncCalls = 0
    /\ pc = [p \in Procs |-> "idle"]
    /\ local = [p \in Procs |-> NoLocal]
    /\ result = [p \in Procs |->
                    IF p = 1 THEN [cmd |-> "login", ok |-> TRUE, val |-> u]
                    ELSE NoResult]
    /\ budget = n
    /\ observe = FALSE
    /\ cleared = {}
    /\ sess = [kind |-> "in", user |-> u]
    /\ saved = u

\* A command returns: Ok(v) or Err(v).  An error value is the fixed leading
\* part of the message the code formats.
Return(p, c, ok, v) ==
    /\ pc' = [pc EXCEPT ![p] = "idle"]
    /\ result' = [result EXCEPT ![p] = [cmd |-> c, ok |-> ok, val |-> v]]

Goto(p, where) ==
    /\ pc' = [pc EXCEPT ![p] = where]
    /\ UNCHANGED result

\* A command begins: the previous result is handed to the caller.
Begin(p) ==
    /\ pc[p] = "idle"
    /\ budget > 0
    /\ budget' = budget - 1
    /\ UNCHANGED <<observe, saved, otherVars>>

\* A command in progress takes its next step.
At(p, where) ==
    /\ pc[p] = where
    /\ UNCHANGED <<budget, observe, otherVars>>

\* ... and leaves the record of what was persisted as it is.
Step(p, where) ==
    /\ At(p, where)
    /\ UNCHANGED saved

\* What a returned command leaves behind of its locals (the request trace of
\* a registration, the outcome of the remote logout), for the properties.
Keep(l) ==
    IF observe
    THEN [NoLocal EXCEPT !.aborted = l.aborted, !.remote = l.remote,
                         !.sent = l.sent, !.first = l.first,
                         !.retry = l.retry, !.finish = l.finish]
    ELSE NoLocal

FinishWith(p, c, ok, v, l) ==
    /\ Return(p, c, ok, v)
    /\ local' = [local EXCEPT ![p] = Keep(l)]

Finish(p, c, ok, v) == FinishWith(p, c, ok, v, local[p])

BuildOutcomes == {"ok", "timeout", "error"}

\* ------------------------------------------------------ abort_sync_tasks
\* Variant: the handles are aborted through iter(), so they stay in the list.
abort_sync_tasks_not_drained ==
    /\ running' = running \ tracked
    /\ UNCHANGED tracked

\* Variant: the list is cleared without aborting; dropped handles detach.
abort_sync_tasks_not_aborted ==
    /\ UNCHANGED running
    /\ tracked' = {}

\* matrix_client.rs: drain the tracked JoinHandles and abort each task.
abort_sync_tasks ==
    /\ running' = running \ tracked
    /\ tracked' = {}

\* ----------------------------------------------------------- matrix_login
\* ServerName::parse, then remove_dir_all(data_dir) and create_dir_all.
\* The session file lives inside data_dir (session_file_path).
matrix_login_start(p, u, hsValid) ==
    /\ Begin(p)
    /\ sess' = NoSess
    /\ IF hsValid
       THEN /\ file' = Absent
            /\ local' = [local EXCEPT ![p] = [NoLocal EXCEPT !.user = u]]
            /\ Goto(p, "login_build")
       ELSE /\ local' = [local EXCEPT ![p] = NoLocal]
            /\ Return(p, "login", FALSE, "Invalid homeserver")
            /\ UNCHANGED file
    /\ UNCHANGED <<client, lockHolder, running, tracked, nextConn, syncCalls,
                   cleared>>

\* Client::builder()...build() under a 60 s timeout.
matrix_login_build(p, outcome) ==
    /\ Step(p, "login_build")
    /\ CASE outcome = "ok" ->
              /\ nextConn' = nextConn + 1
              /\ local' = [local EXCEPT ![p].conn = nextConn]
              /\ Goto(p, "login_send")
         [] outcome = "timeout" ->
              /\ Finish(p, "login", FALSE, "Client build timed out")
              /\ UNCHANGED nextConn
         [] OTHER ->
              /\ Finish(p, "login", FALSE, "Failed to build client")
              /\ UNCHANGED nextConn
    /\ UNCHANGED <<client, lockHolder, file, running, tracked, syncCalls,
                   cleared, sess>>

\* login_username(..).send() under a 30 s timeout.
matrix_login_send(p, outcome) ==
    /\ Step(p, "login_send")
    /\ CASE outcome = "ok" ->
              /\ Goto(p, "login_save")
              /\ UNCHANGED local
         [] outcome = "timeout" ->
              Finish(p, "login", FALSE, "Login timed out")
         [] OTHER ->
              Finish(p, "login", FALSE, "Login failed")
    /\ UNCHANGED <<client, lockHolder, file, running, tracked, nextConn,
                   syncCalls, cleared, sess>>

\* fs::write(session_path, json)
matrix_login_save(p) ==
    /\ Step(p, "login_save")
    /\ file' = local[p].user
    /\ Goto(p, "login_install")
    /\ UNCHANGED <<client, lockHolder, running, tracked, nextConn, syncCalls,
                   local, cleared, sess>>

\* state.client.lock().await; *client_lock = Some(client); Ok(user_id)
matrix_login_install(p) ==
    /\ At(p, "login_install")
    /\ lockHolder = 0
    /\ saved' = local[p].user
    /\ client' = [user |-> local[p].user, conn |-> local[p].conn]
    /\ sess' = [kind |-> "in", user |-> local[p].user]
    /\ Finish(p, "login", TRUE, local[p].user)
    /\ UNCHANGED <<lockHolder, file, running, tracked, nextConn, syncCalls,
                   cleared>>

\* -------------------------------------------------------- matrix_register
matrix_register_start(p, u, hsValid) ==
    /\ Begin(p)
    /\ sess' = NoSess
    /\ IF hsValid
       THEN /\ file' = Absent
            /\ local' = [local EXCEPT ![p] = [NoLocal EXCEPT !.user = u]]
            /\ Goto(p, "reg_build")
       ELSE /\ local' = [local EXCEPT ![p] = NoLocal]
            /\ Return(p, "register", FALSE, "Invalid homeserver")
            /\ UNCHANGED file
    /\ UNCHANGED <<client, lockHolder, running, tracked, nextConn, syncCalls,
                   cleared>>

matrix_register_build(p, outcome) ==
    /\ Step(p, "reg_build")
    /\ CASE outcome = "ok" ->
              /\ nextConn' = nextConn + 1
              /\ local' = [local EXCEPT ![p].conn = nextConn]
              /\ Goto(p, "reg_first")
         [] outcome = "timeout" ->
              /\ Finish(p, "register", FALSE, "Client build timed out")
              /\ UNCHANGED nextConn
         [] OTHER ->
              /\ Finish(p, "register", FALSE, "Failed to build client")
              /\ UNCHANGED nextConn
    /\ UNCHANGED <<client, lockHolder, file, running, tracked, syncCalls,
                   cleared, sess>>

\* status.is_success()
IsSuccess(status) == status >= 200 /\ status < 300

\* Variant: a flow qualifies as soon as the dummy stage is its first stage.
has_dummy_flow_first_stage_only(flows) ==
    /\ flows.isArray
    /\ \E i \in 1..Len(flows.items) :
         LET stages == flows.items[i]
         IN  /\ stages.isArray
             /\ Len(stages.items) >= 1
             /\ stages.items[1] = DUMMY

\* flows.iter().any(|f| stages.len() == 1 && stages[0] == "m.login.dummy")
has_dummy_flow(flows) ==
    /\ flows.isArray
    /\ \E i \in 1..Len(flows.items) :
         LET stages == flows.items[i]
         IN  /\ stages.isArray
             /\ Len(stages.items) = 1
             /\ stages.items[1] = DUMMY

\* The request bodies: the bare credentials, and the retry's "auth" object
\* {"type": "m.login.dummy"} with "session" set when the challenge had one.
BareRequest == [auth |-> "none", session |-> NoToken]

\* Variant: the retry omits the challenge's session.
RetryRequest_without_session(session) == [auth |-> DUMMY, session |-> NoToken]

RetryRequest(session) == [auth |-> DUMMY, session |-> session]

\* Step 1: http.post(register_url).json(body).send() under a 30 s timeout,
\* resp.json(), and the decisions taken on the answer.
matrix_register_first(p, r) ==
    /\ Step(p, "reg_first")
    /\ LET l == [local[p] EXCEPT !.sent = <<BareRequest>>, !.first = r]
       IN  CASE r.kind = "timeout" ->
                  FinishWith(p, "register", FALSE, "Registration timed out", l)
             [] r.kind = "transport" ->
                  FinishWith(p, "register", FALSE, "Registration failed", l)
             [] r.kind = "http" /\ ~r.json ->
                  FinishWith(p, "register", FALSE, "Failed to parse response", l)
             [] r.kind = "http" /\ r.json /\ IsSuccess(r.status) ->
                  /\ local' = [local EXCEPT ![p] = l]
                  /\ Goto(p, "reg_finish")
             [] r.kind = "http" /\ r.json /\ ~IsSuccess(r.status)
                  /\ r.status # 401 ->
                  FinishWith(p, "register", FALSE,
                             "Registration failed: server error", l)
             [] r.kind = "http" /\ r.json /\ r.status = 401
                  /\ ~has_dummy_flow(r.flows) ->
                  FinishWith(p, "register", FALSE,
                             "This server requires additional verification steps", l)
             [] OTHER ->
                  /\ local' = [local EXCEPT ![p] = l]
                  /\ Goto(p, "reg_retry")
    /\ UNCHANGED <<client, lockHolder, file, running, tracked, nextConn,
                   syncCalls, cleared, sess>>

\* Step 2: the retry with m.login.dummy auth + session, 30 s timeout.
matrix_register_retry(p, r) ==
    /\ Step(p, "reg_retry")
    /\ LET l == [local[p] EXCEPT
                   !.sent = Append(@, RetryRequest(local[p].first.session)),
                   !.retry = r]
       IN  CASE r.kind = "timeout" ->
                  FinishWith(p, "register", FALSE, "Registration timed out", l)
             [] r.kind = "transport" ->
                  FinishWith(p, "register", FALSE, "Registration failed", l)
             [] r.kind = "http" /\ ~IsSuccess(r.status) /\ ~r.json ->
                  FinishWith(p, "register", FALSE, "Failed to parse error", l)
             [] r.kind = "http" /\ ~IsSuccess(r.status) /\ r.json ->
                  FinishWith(p, "register", FALSE,
                             "Registration failed: server error", l)
             [] r.kind = "http" /\ IsSuccess(r.status) /\ ~r.json ->
                  FinishWith(p, "register", FALSE, "Failed to parse response", l)
             [] OTHER ->
                  /\ local' = [local EXCEPT ![p] = l]
                  /\ Goto(p, "reg_finish")
    /\ UNCHANGED <<client, lockHolder, file, running, tracked, nextConn,
                   syncCalls, cleared, sess>>

\* finish_registration: the fields of the success body, UserId::parse,
\* client.restore_session(session).await
SuccessBody(l) == IF l.retry.kind = "http" THEN l.retry.body ELSE l.first.body

finish_registration_restore(p, ok) ==
    /\ Step(p, "reg_finish")
    /\ CASE SuccessBody(local[p]) = "missing-field" ->
              FinishWith(p, "register", FALSE, "Registration response missing",
                         [local[p] EXCEPT !.finish = "missing-field"])
         [] SuccessBody(local[p]) = "bad-user-id" ->
              FinishWith(p, "register", FALSE, "Invalid user_id",
                         [local[p] EXCEPT !.finish = "bad-user-id"])
         [] SuccessBody(local[p]) = "complete" /\ ~ok ->
              FinishWith(p, "register", FALSE,
                         "Registration succeeded but session setup failed",
                         [local[p] EXCEPT !.finish = "restore-failed"])
         [] OTHER ->
              /\ local' = [local EXCEPT ![p].finish = "ok"]
              /\ Goto(p, "reg_save")
    /\ UNCHANGED <<client, lockHolder, file, running, tracked, nextConn,
                   syncCalls, cleared, sess>>

\* fs::write(session_path, json)
finish_registration_save(p) ==
    /\ Step(p, "reg_save")
    /\ file' = local[p].user
    /\ Goto(p, "reg_install")
    /\ UNCHANGED <<client, lockHolder, running, tracked, nextConn, syncCalls,
                   local, cleared, sess>>

\* lock; *client_lock = Some(client); Ok(user_id)
finish_registration_install(p) ==
    /\ At(p, "reg_install")
    /\ lockHolder = 0
    /\ saved' = local[p].user
    /\ client' = [user |-> local[p].user, conn |-> local[p].conn]
    /\ sess' = [kind |-> "in", user |-> local[p].user]
    /\ Finish(p, "register", TRUE, local[p].user)
    /\ UNCHANGED <<lockHolder, file, running, tracked, nextConn, syncCalls,
                   cleared>>

\* ---------------------------------------------------------- matrix_logout
\* state.abort_sync_tasks()
matrix_logout_abort(p) ==
    /\ Begin(p)
    /\ abort_sync_tasks
    /\ sess' = NoSess
    /\ local' = [local EXCEPT ![p] = [NoLocal EXCEPT !.aborted = TRUE]]
    /\ Goto(p, "logout_lock")
    /\ UNCHANGED <<client, lockHolder, file, nextConn, syncCalls, cleared>>

\* let mut client_lock = state.client.lock().await; if let Some(client) ..
matrix_logout_lock(p) ==
    /\ Step(p, "logout_lock")
    /\ lockHolder = 0
    /\ lockHolder' = p
    /\ Goto(p, IF client = NoClient THEN "logout_clear" ELSE "logout_remote")
    /\ UNCHANGED <<client, file, running, tracked, nextConn, syncCalls,
                   local, cleared, sess>>

\* Variant: the remote logout's error is propagated with `?`.
remote_logout_propagated(ok) == ok

\* let _ = client.matrix_auth().logout().await : the result is dropped.
remote_logout_ignored(ok) == TRUE

matrix_logout_remote(p, ok) ==
    /\ Step(p, "logout_remote")
    /\ IF remote_logout_ignored(ok)
       THEN /\ local' = [local EXCEPT ![p].remote =
                                        IF ok THEN "ok" ELSE "failed"]
            /\ Goto(p, "logout_clear")
            /\ UNCHANGED lockHolder
       ELSE /\ lockHolder' = 0
            /\ Finish(p, "logout", FALSE, "Logout failed")
    /\ UNCHANGED <<client, file, running, tracked, nextConn, syncCalls,
                   cleared, sess>>

\* *client_lock = None
matrix_logout_clear(p) ==
    /\ Step(p, "logout_clear")
    /\ lockHolder = p
    /\ client' = NoClient
    /\ cleared' = IF client = NoClient THEN cleared
                  ELSE cleared \cup {client.conn}
    /\ Goto(p, "logout_delete")
    /\ UNCHANGED <<lockHolder, file, running, tracked, nextConn, syncCalls,
                   local, sess>>

\* remove_file(session_file_path()); Ok(()) ; the lock guard is dropped.
matrix_logout_delete(p) ==
    /\ At(p, "logout_delete")
    /\ saved' = ""
    /\ file' = Absent
    /\ lockHolder' = 0
    /\ sess' = [kind |-> "out", user |-> ""]
    /\ Finish(p, "logout", TRUE, "")
    /\ UNCHANGED <<client, running, tracked, nextConn, syncCalls, cleared>>

\* ------------------------------------------------------ matrix_disconnect
matrix_disconnect_abort(p) ==
    /\ Begin(p)
    /\ abort_sync_tasks
    /\ local' = [local EXCEPT ![p] = [NoLocal EXCEPT !.aborted = TRUE]]
    /\ Goto(p, "disconnect_clear")
    /\ UNCHANGED <<client, lockHolder, file, nextConn, syncCalls, cleared,
                   sess>>

\* lock; *client_lock = None; Ok(())
matrix_disconnect_clear(p) ==
    /\ Step(p, "disconnect_clear")
    /\ lockHolder = 0
    /\ client' = NoClient
    /\ cleared' = IF client = NoClient THEN cleared
                  ELSE cleared \cup {client.conn}
    /\ Finish(p, "disconnect", TRUE, "")
    /\ UNCHANGED <<lockHolder, file, running, tracked, nextConn, syncCalls,
                   sess>>

\* ---------------------------------------------------- try_restore_session
\* Variant: the existence check is skipped.
SessionExists_unchecked(f) == TRUE

\* session_path.exists()
SessionExists(f) == f # Absent

\* Variant: a parse failure is not treated as an error.
ParseSession_lenient(f) == [ok |-> TRUE, user |-> f]

\* serde_json::from_str::<PersistedSession>
ParseSession(f) == [ok |-> f # Corrupt, user |-> f]

try_restore_session_check(p) ==
    /\ Begin(p)
    /\ local' = [local EXCEPT ![p] = NoLocal]
    /\ IF SessionExists(file)
       THEN Goto(p, "restore_read")
       ELSE Return(p, "restore", FALSE, "No saved session")
    /\ UNCHANGED <<client, lockHolder, file, running, tracked, nextConn,
                   syncCalls, cleared, sess>>

\* fs::read_to_string, serde_json::from_str
try_restore_session_read(p) ==
    /\ Step(p, "restore_read")
    /\ CASE file = Absent ->
              Finish(p, "restore", FALSE, "Failed to read session")
         [] file # Absent /\ ~ParseSession(file).ok ->
              Finish(p, "restore", FALSE, "Failed to parse session")
         [] OTHER ->
              /\ local' = [local EXCEPT ![p].user = ParseSession(file).user]
              /\ Goto(p, "restore_build")
    /\ UNCHANGED <<client, lockHolder, file, running, tracked, nextConn,
                   syncCalls, cleared, sess>>

\* Client::builder().homeserver_url(saved)...build() under a 60 s timeout.
try_restore_session_build(p, outcome) ==
    /\ Step(p, "restore_build")
    /\ CASE outcome = "ok" ->
              /\ nextConn' = nextConn + 1
              /\ local' = [local EXCEPT ![p].conn = nextConn]
              /\ Goto(p, "restore_apply")
         [] outcome = "timeout" ->
              /\ Finish(p, "restore", FALSE, "Session restore timed out")
              /\ UNCHANGED nextConn
         [] OTHER ->
              /\ Finish(p, "restore", FALSE, "Failed to build client")
              /\ UNCHANGED nextConn
    /\ UNCHANGED <<client, lockHolder, file, running, tracked, syncCalls,
                   cleared, sess>>

\* UserId::parse(saved.user_id), client.restore_session(session).await
try_restore_session_apply(p, ok) ==
    /\ Step(p, "restore_apply")
    /\ CASE local[p].user = BadUserId ->
              Finish(p, "restore", FALSE, "Invalid user_id")
         [] local[p].user # BadUserId /\ ~ok ->
              Finish(p, "restore", FALSE, "Failed to restore session")
         [] OTHER ->
              /\ Goto(p, "restore_install")
              /\ UNCHANGED local
    /\ UNCHANGED <<client, lockHolder, file, running, tracked, nextConn,
                   syncCalls, cleared, sess>>

\* lock; *client_lock = Some(client); Ok(user_id)
try_restore_session_install(p) ==
    /\ Step(p, "restore_install")
    /\ lockHolder = 0
    /\ client' = [user |-> local[p].user, conn |-> local[p].conn]
    /\ Finish(p, "restore", TRUE, local[p].user)
    /\ UNCHANGED <<lockHolder, file, running, tracked, nextConn, syncCalls,
                   cleared, sess>>

\* ------------------------------------------------------------- start_sync
\* Variant: the guard is not dropped after the clone.
client_lock_kept(p) == p

\* drop(client_lock): the mutex is free again.
drop_client_lock(p) == 0

\* lock; client_lock.as_ref().ok_or("Not logged in")?.clone(); drop(lock)
start_sync_clone(p) ==
    /\ Begin(p)
    /\ lockHolder = 0
    /\ IF client = NoClient
       THEN /\ local' = [local EXCEPT ![p] = NoLocal]
            /\ Return(p, "start_sync", FALSE, "Not logged in")
            /\ UNCHANGED <<syncCalls, lockHolder>>
       ELSE /\ syncCalls' = syncCalls + 1
            /\ local' = [local EXCEPT ![p] =
                           [NoLocal EXCEPT !.conn = client.conn,
                                           !.call = syncCalls + 1]]
            /\ lockHolder' = drop_client_lock(p)
            /\ Goto(p, "sync_abort")
    /\ UNCHANGED <<client, file, running, tracked, nextConn, cleared, sess>>

\* state.abort_sync_tasks()
start_sync_abort(p) ==
    /\ Step(p, "sync_abort")
    /\ abort_sync_tasks
    /\ local' = [local EXCEPT ![p].aborted = TRUE]
    /\ Goto(p, "sync_spawn")
    /\ UNCHANGED <<client, lockHolder, file, nextConn, syncCalls, cleared,
                   sess>>

\* The two tasks one start_sync call spawns from its clone of the client.
Task(call, kind, conn) == [call |-> call, kind |-> kind, conn |-> conn]
SpawnedBy(l) == {Task(l.call, "poll", l.conn), Task(l.call, "sync", l.conn)}

\* tokio::spawn(poll loop); tokio::spawn(sync loop)
start_sync_spawn(p) ==
    /\ Step(p, "sync_spawn")
    /\ running' = running \cup SpawnedBy(local[p])
    /\ Goto(p, "sync_record")
    /\ UNCHANGED <<client, lockHolder, file, tracked, nextConn, syncCalls,
                   local, cleared, sess>>

\* *tasks = vec![poll_task, sync_task]; Ok(())
start_sync_record(p) ==
    /\ Step(p, "sync_record")
    /\ tracked' = SpawnedBy(local[p])
    /\ Finish(p, "start_sync", TRUE, "")
    /\ UNCHANGED <<client, lockHolder, file, running, nextConn, syncCalls,
                   cleared, sess>>

\* ----------------------------------------- commands that need the handle
\* The commands that begin with
\*   let client_lock = state.client.lock().await;
\*   let client = client_lock.as_ref().ok_or("Not logged in")?;
\* and keep the guard to their end.  start_sync and the verification
\* commands, which begin the same way, have their own actions.
HandleCommands ==
    {"get_user_profile", "get_room_info", "create_dm_room", "get_buddy_list",
     "get_room_members", "get_rooms", "get_room_messages", "send_message",
     "edit_message", "delete_message", "send_reaction", "set_presence",
     "send_typing", "mark_as_read", "upload_file", "fetch_media",
     "search_users", "join_room", "create_room", "leave_room", "remove_buddy",
     "get_pending_invites", "accept_invite", "reject_invite"}

\* client_lock.as_ref() is None.  (The variant takes any handle as present.)
as_ref_is_none_never(c) == FALSE

as_ref_is_none(c) == c = NoClient

\* lock; client_lock.as_ref().ok_or("Not logged in")?
handle_command_lock(p, c) ==
    /\ Begin(p)
    /\ lockHolder = 0
    /\ local' = [local EXCEPT ![p] = NoLocal]
    /\ IF as_ref_is_none(client)
       THEN /\ Return(p, c, FALSE, "Not logged in")
            /\ UNCHANGED lockHolder
       ELSE /\ lockHolder' = p
            /\ Goto(p, c)
    /\ UNCHANGED <<client, file, running, tracked, nextConn, syncCalls,
                   cleared, sess>>

\* The command's work on the borrowed client, then Ok or Err; the guard is
\* dropped as the command returns.
handle_command_run(p, c, ok) ==
    /\ Step(p, c)
    /\ lockHolder = p
    /\ lockHolder' = 0
    /\ Finish(p, c, ok, IF ok THEN "" ELSE "failed")
    /\ UNCHANGED <<client, file, running, tracked, nextConn, syncCalls,
                   cleared, sess>>

\* --------------------------------------------------------- with_heartbeat
\* tokio::time::sleep(Duration::from_secs(5)); elapsed += 5; elapsed >= 5
PresenceTimeoutSecs == 3
HeartbeatSecs == 5

\* The operation's output: with_heartbeat is generic in it.
OpResults == {"Ok", "Err"}

NoHb == [phase |-> "idle", T |-> 0, op |-> "", now |-> 0, wake |-> 0,
         elapsed |-> 0, notices |-> <<>>, ret |-> ""]

StillWaiting(n) == [kind |-> "still waiting", secs |-> n]
CompletedAfter(n) == [kind |-> "completed after", secs |-> n]

\* Variant: the completion is reported for every call.
completion_notice_always(elapsed) == <<CompletedAfter(elapsed)>>

\* if elapsed >= 5 { slog("{} completed after {}s") }
completion_notice(elapsed) ==
    IF elapsed >= HeartbeatSecs THEN <<CompletedAfter(elapsed)>> ELSE <<>>

\* with_heartbeat is called on an operation that completes T seconds from
\* now with output r; the first pass of the loop arms a 5 s sleep.
with_heartbeat_call(T, r) ==
    /\ hb.phase = "idle"
    /\ hb' = [NoHb EXCEPT !.phase = "select", !.T = T, !.op = r,
                          !.wake = HeartbeatSecs]
    /\ UNCHANGED <<sessionVars, fx, sy, vf, lg, pl, mx>>

\* Neither branch of the select! is ready: a second passes.
with_heartbeat_wait ==
    /\ hb.phase = "select"
    /\ hb.now < hb.T /\ hb.now < hb.wake
    /\ hb' = [hb EXCEPT !.now = @ + 1]
    /\ UNCHANGED <<sessionVars, fx, sy, vf, lg, pl, mx>>

\* select! branch `result = &mut fut`: the operation is complete.  When the
\* sleep is complete as well, select! runs either branch.
with_heartbeat_done ==
    /\ hb.phase = "select"
    /\ hb.now >= hb.T
    /\ hb' = [hb EXCEPT !.phase = "returned",
                        !.notices = @ \o completion_notice(hb.elapsed),
                        !.ret = hb.op]
    /\ UNCHANGED <<sessionVars, fx, sy, vf, lg, pl, mx>>

\* select! branch `_ = sleep(5 s)`: count, report, loop (a new sleep).
with_heartbeat_tick ==
    /\ hb.phase = "select"
    /\ hb.now >= hb.wake
    /\ hb' = [hb EXCEPT !.elapsed = @ + HeartbeatSecs,
                        !.notices = Append(@, StillWaiting(hb.elapsed
                                                          + HeartbeatSecs)),
                        !.wake = hb.now + HeartbeatSecs]
    /\ UNCHANGED <<sessionVars, fx, sy, vf, lg, pl, mx>>

Heartbeat ==
    \/ \E T \in 0..MaxOpSecs, r \in OpResults : with_heartbeat_call(T, r)
    \/ with_heartbeat_wait
    \/ with_heartbeat_done
    \/ with_heartbeat_tick

\* ------------------------------------------- start_sync's event handlers
\* A function is applied to an input: fx records which, on what, and the
\* output.
NoCall == [fn |-> "none", arg |-> <<>>, out |-> <<>>]

Apply(fn, arg, out) ==
    /\ fx = NoCall
    /\ fx' = [fn |-> fn, arg |-> arg, out |-> out]
    /\ UNCHANGED <<sessionVars, hb, sy, vf, lg, pl, mx>>

\* The inputs a call can still be made with: none after the call.
Pending(inputs) == IF fx = NoCall THEN inputs ELSE {}

EventIds == {"$e1", "$e2"}
MsgTypes == {"text", "notice", "emote", "image", "file", "audio", "video",
             "location"}
TextLike == {"text", "notice", "emote"}
Relations == {"none", "reply", "thread", "replacement", "other"}

\* A SyncRoomMessageEvent: its id, whether it is unredacted (as_original),
\* content.relates_to (with the event id it names), content.msgtype and,
\* for a replacement, new_content.msgtype.
MessageEvents ==
    [id : EventIds, original : BOOLEAN, rel : Relations, target : EventIds,
     msgtype : MsgTypes, newtype : MsgTypes]

\* The notifications app.emit sends to the UI.
Notify(kind, key, what) == [kind |-> kind, key |-> key, what |-> what]

\* Variant: the message is built and emitted first, the relation is looked
\* at afterwards.
room_message_handler_edit_checked_last(e) ==
    IF ~e.original THEN <<>>
    ELSE (IF e.msgtype = "location" THEN <<>>
          ELSE <<Notify("new_message", e.id,
                        IF e.msgtype \in TextLike THEN "text" ELSE e.msgtype)>>)
         \o (IF e.rel = "replacement" /\ e.newtype \in TextLike
             THEN <<Notify("message_edited", e.target, e.newtype)>>
             ELSE <<>>)

\* The handler of SyncRoomMessageEvent: what it emits for event e.
room_message_handler(e) ==
    IF ~e.original THEN <<>>
    ELSE IF e.rel = "replacement"
    THEN IF e.newtype \in TextLike
         THEN <<Notify("message_edited", e.target, e.newtype)>>
         ELSE <<>>
    ELSE IF e.msgtype = "location" THEN <<>>
    ELSE <<Notify("new_message", e.id,
                  IF e.msgtype \in TextLike THEN "text" ELSE e.msgtype)>>

\* One live message event is handed to the handler.
route_message(e) ==
    Apply("room_message_handler", e, room_message_handler(e))

\* The handler of SyncRoomRedactionEvent.
redaction_handler(e) ==
    IF e.original /\ e.redacts # ""
    THEN <<Notify("message_deleted", e.redacts, "")>>
    ELSE <<>>

\* The handler of SyncReactionEvent.
reaction_handler(e) ==
    IF e.original THEN <<Notify("reaction", e.id, e.target)>> ELSE <<>>

\* The handler of the typing event.
typing_handler(e) == <<Notify("typing", e.room, "")>>

\* The handler of StrippedRoomMemberEvent.
invite_handler(e) ==
    IF e.membership = "invite" THEN <<Notify("room_invite", e.room, "")>>
    ELSE <<>>

\* One stripped membership event is handed to the invite handler.
route_invite(e) == Apply("invite_handler", e, invite_handler(e))

\* StrippedRoomMemberEvent of a room's invite state: the room, the new
\* membership, the user it is about (state_key), who sent it, and whether
\* room.display_name() succeeds.  Me is the logged-in user.
Me == "@alice:hs"
Memberships == {"invite", "join", "leave", "ban", "knock"}
MemberEvents ==
    [cat : {"invite"}, room : {"!room", "!other"}, membership : Memberships,
     state_key : {Me, "@bob:hs"}, sender : {Me, "@bob:hs", "@carol:hs"},
     named : BOOLEAN]

\* The handler of ToDeviceKeyVerificationRequestEvent; e.known says whether
\* get_verification_request finds the request.
verification_handler(e) ==
    IF e.known THEN <<Notify("verification_request", e.flow, "")>> ELSE <<>>

\* What one registration of the six handlers emits for event e.
event_handlers(e) ==
    CASE e.cat = "message" -> room_message_handler(e.ev)
      [] e.cat = "redaction" -> redaction_handler(e)
      [] e.cat = "reaction" -> reaction_handler(e)
      [] e.cat = "typing" -> typing_handler(e)
      [] e.cat = "invite" -> invite_handler(e)
      [] OTHER -> verification_handler(e)

\* The inbound events of the sync loop's model, one or two of a category.
SyncEvents ==
    {[cat |-> "message",
      ev |-> [id |-> "$e1", original |-> TRUE, rel |-> "none",
              target |-> "$e1", msgtype |-> "text", newtype |-> "text"]],
     [cat |-> "message",
      ev |-> [id |-> "$e2", original |-> TRUE, rel |-> "replacement",
              target |-> "$e1", msgtype |-> "text", newtype |-> "text"]],
     [cat |-> "message",
      ev |-> [id |-> "$e2", original |-> TRUE, rel |-> "none",
              target |-> "$e1", msgtype |-> "location", newtype |-> "text"]],
     [cat |-> "redaction", original |-> TRUE, redacts |-> "$e1"],
     [cat |-> "redaction", original |-> TRUE, redacts |-> ""],
     [cat |-> "reaction", id |-> "$e2", original |-> TRUE, target |-> "$e1"],
     [cat |-> "typing", room |-> "!room"],
     [cat |-> "invite", room |-> "!room", membership |-> "invite"],
     [cat |-> "invite", room |-> "!room", membership |-> "join"],
     [cat |-> "verification", flow |-> "flow", known |-> TRUE]}

\* ------------------------------------------------ start_sync's sync task
NoEvent == [cat |-> "none"]
NoSync == [registered |-> {}, rounds |-> 0, errors |-> 0, synced |-> {},
           round |-> "none", task |-> Task(0, "sync", 0), event |-> NoEvent,
           out |-> <<>>]

\* The handler registrations made on connection c: client.add_event_handler
\* adds to the client shared by every clone of the handle.
HandlersOn(c) == {t \in sy.registered : t.conn = c}

RECURSIVE Repeat(_, _)
Repeat(seq, n) == IF n = 0 THEN <<>> ELSE seq \o Repeat(seq, n - 1)

\* The client hands event e to every handler registered on connection c.
Dispatch(e, c) == Repeat(event_handlers(e), Cardinality(HandlersOn(c)))

\* The sync task begins: it registers its six handlers, none of which
\* awaits, and announces "syncing".
sync_task_register(t) ==
    /\ t \in running /\ t.kind = "sync"
    /\ t \notin sy.registered
    /\ sy' = [sy EXCEPT !.registered = @ \cup {t}]
    /\ UNCHANGED <<sessionVars, hb, fx, vf, lg, pl, mx>>

\* Variant: the callback ends the loop when a round failed.
sync_callback_break_on_error(ok) == IF ok THEN "Continue" ELSE "Break"

\* The callback of sync_with_result_callback: Ok(LoopCtrl::Continue).
sync_callback(ok) == "Continue"

\* One round of sync_with_result_callback in task t: it fails, or it
\* succeeds and delivers event e to the handlers; then the callback runs.
sync_round(t, ok, e) ==
    /\ t \in running /\ t \in sy.registered
    /\ sy.rounds < MaxRounds
    /\ sy' = [sy EXCEPT
                !.rounds = @ + 1,
                !.round = IF ok THEN "ok" ELSE "failed",
                !.task = t,
                !.errors = IF ok THEN @ ELSE @ + 1,
                !.synced = IF ok THEN @ \cup {t} ELSE @,
                !.event = IF ok THEN e ELSE NoEvent,
                !.out = IF ok THEN Dispatch(e, t.conn) ELSE <<>>]
    /\ running' = IF sync_callback(ok) = "Continue" THEN running
                  ELSE running \ {t}
    /\ UNCHANGED <<client, lockHolder, file, tracked, nextConn, syncCalls,
                   pc, local, result, budget, observe, cleared, sess, saved,
                   hb, fx, vf, lg, pl, mx>>

SyncTask ==
    \/ \E t \in running : sync_task_register(t)
    \/ \E t \in running, e \in SyncEvents : sync_round(t, TRUE, e)
    \/ \E t \in running : sync_round(t, FALSE, NoEvent)

\* ----------------------------------------------------- get_room_messages
\* The events of a fetched chunk: a room message that is no edit (its event
\* id and body), an edit (the id it replaces and the new body, "" when the
\* new content is not text, notice or emote), or an event the loop skips
\* (not a room message, redacted, or not deserializable).
HistoryBodies == {"", "v2", "v3"}
HistoryEvents ==
    {[kind |-> "message", id |-> i, body |-> "v1"] : i \in EventIds}
    \cup {[kind |-> "edit", id |-> t, body |-> b] :
             t \in EventIds \cup {"$gone"}, b \in HistoryBodies}
    \cup {[kind |-> "skipped", id |-> "$s", body |-> ""]}

\* Chunks as the server returns them: newest first, every message once,
\* and an edit of a message is newer than the message.
Batches ==
    {b \in SeqsUpTo(HistoryEvents, MaxBatch) :
       \A i, j \in DOMAIN b :
          /\ (b[i].kind = "message" /\ b[j].kind = "message"
                /\ b[i].id = b[j].id) => i = j
          /\ (b[i].kind = "message" /\ b[j].kind = "edit"
                /\ b[i].id = b[j].id) => j < i}

\* HashMap::insert
Insert(map, k, v) == [x \in DOMAIN map \cup {k} |-> IF x = k THEN v ELSE map[x]]

\* for event in chunk: an edit with a non-empty new body is inserted into
\* `edits` under the id it replaces; the edit itself is never pushed.
RECURSIVE CollectEdits(_, _)
CollectEdits(chunk, edits) ==
    IF chunk = <<>> THEN edits
    ELSE LET e == Head(chunk)
         IN  CollectEdits(Tail(chunk),
                          IF e.kind = "edit" /\ e.body # ""
                          THEN Insert(edits, e.id, e.body)
                          ELSE edits)

\* for event in chunk: every other unredacted room message is pushed.
RECURSIVE CollectMessages(_, _)
CollectMessages(chunk, messages) ==
    IF chunk = <<>> THEN messages
    ELSE LET e == Head(chunk)
         IN  CollectMessages(Tail(chunk),
                             IF e.kind = "message"
                             THEN Append(messages, [id |-> e.id, body |-> e.body])
                             ELSE messages)

\* for msg in &mut messages { if let Some(new_body) = edits.get(&msg.event_id) }
ApplyEdits(messages, edits) ==
    [i \in DOMAIN messages |->
       IF messages[i].id \in DOMAIN edits
       THEN [messages[i] EXCEPT !.body = edits[messages[i].id]]
       ELSE messages[i]]

\* messages.reverse()
Reverse(q) == [i \in 1..Len(q) |-> q[Len(q) + 1 - i]]

\* The messages of the page get_room_messages returns for a chunk.
Page(chunk) ==
    Reverse(ApplyEdits(CollectMessages(chunk, <<>>), CollectEdits(chunk, <<>>)))

get_room_messages(chunk) == Apply("get_room_messages", chunk, Page(chunk))

\* ------------------------------------------------------------- strings
\* A string is the sequence of its characters.  Line breaks are "\n" only.
NL == "\n"
Chars == {">", " ", "<", NL, "a"}
Whitespace == {" ", NL}

\* str::starts_with
StartsWith(str, pre) ==
    Len(str) >= Len(pre) /\ SubSeq(str, 1, Len(pre)) = pre

\* The text after the first n characters.
From(str, n) == SubSeq(str, n + 1, Len(str))

\* str::find(c): the position of the first c, 0 when there is none.
Find(str, c) ==
    IF \E i \in DOMAIN str : str[i] = c
    THEN CHOOSE i \in DOMAIN str :
           str[i] = c /\ \A j \in 1..(i - 1) : str[j] # c
    ELSE 0

\* str::lines(): the pieces between line breaks; a final line break does
\* not begin a further, empty line.
RECURSIVE Lines(_)
Lines(str) ==
    IF str = <<>> THEN <<>>
    ELSE LET n == Find(str, NL)
         IN  IF n = 0 THEN <<str>>
             ELSE <<SubSeq(str, 1, n - 1)>> \o Lines(From(str, n))

\* [..].join("\n")
RECURSIVE Join(_)
Join(lines) ==
    IF lines = <<>> THEN <<>>
    ELSE IF Len(lines) = 1 THEN lines[1]
    ELSE lines[1] \o <<NL>> \o Join(Tail(lines))

\* str::trim_start, str::trim
RECURSIVE TrimStart(_)
TrimStart(str) ==
    IF str # <<>> /\ str[1] \in Whitespace THEN TrimStart(Tail(str)) ELSE str

RECURSIVE TrimEnd(_)
TrimEnd(str) ==
    IF str # <<>> /\ str[Len(str)] \in Whitespace
    THEN TrimEnd(SubSeq(str, 1, Len(str) - 1))
    ELSE str

Trim(str) == TrimEnd(TrimStart(str))

\* ------------------------------------------------- strip_reply_fallback
\* line.starts_with("> ") || *line == ">"
IsQuoteLine(line) == StartsWith(line, <<">", " ">>) \/ line = <<">">>

\* while let Some(line) = lines.peek() { if quoted { lines.next() } else break }
RECURSIVE SkipQuoted(_)
SkipQuoted(lines) ==
    IF lines # <<>> /\ IsQuoteLine(Head(lines)) THEN SkipQuoted(Tail(lines))
    ELSE lines

\* Variant: the blank line after the quoted lines is kept.
SkipBlank_kept(lines) == lines

\* if let Some(line) = lines.peek() { if line.is_empty() { lines.next() } }
SkipBlank(lines) ==
    IF lines # <<>> /\ Head(lines) = <<>> THEN Tail(lines) ELSE lines

strip_reply_fallback(body) ==
    IF ~StartsWith(body, <<">", " ">>) THEN body
    ELSE Join(SkipBlank(SkipQuoted(Lines(body))))

\* Every body of up to MaxBody characters.
MessageBodies == SeqsUpTo(Chars, MaxBody)

strip_applied(body) ==
    Apply("strip_reply_fallback", body, strip_reply_fallback(body))

\* ----------------------------------------------- extract_reply_fallback
NoReplyFallback == [some |-> FALSE]
ReplyFallback(sender, quoted) ==
    [some |-> TRUE, sender |-> sender, quoted |-> quoted]

\* for line in lines { if let Some(stripped) = line.strip_prefix("> ")
\*                     { push(stripped) } else { break } }
RECURSIVE TakeQuoted(_)
TakeQuoted(lines) ==
    IF lines # <<>> /\ StartsWith(Head(lines), <<">", " ">>)
    THEN <<From(Head(lines), 2)>> \o TakeQuoted(Tail(lines))
    ELSE <<>>

extract_reply_fallback(body) ==
    IF ~StartsWith(body, <<">", " ", "<">>) THEN NoReplyFallback
    ELSE LET lines == Lines(body)
             first_line == Head(lines)
             after_bracket == From(first_line, 3)
             end_bracket == Find(after_bracket, ">")
             sender == SubSeq(after_bracket, 1, end_bracket - 1)
             first_quote == TrimStart(From(after_bracket, end_bracket))
             quoted_lines == <<first_quote>> \o TakeQuoted(Tail(lines))
         IN  IF end_bracket = 0 THEN NoReplyFallback
             ELSE ReplyFallback(sender, Trim(Join(quoted_lines)))

\* Bodies that carry a well-formed reply fallback, by their parts: the
\* sender and the quoted lines (the header's text first), and the reply
\* text when there is one.
Senders == {<<"a">>, <<"a", "a">>, <<"<", "a">>}
QuoteTexts ==
    {<<>>, <<"a">>, <<" ", "a">>, <<"a", " ">>, <<"a", ">">>,
     <<">", " ", "a">>}
ReplyTexts ==
    {<<>>, <<"a">>, <<"a", NL, "a">>, <<">", " ", "a">>, <<NL, "a">>,
     <<"a", NL>>, <<"a", NL, NL>>, <<" ", "a", " ">>}
Replies ==
    [sender : Senders,
     quoted : {q \in SeqsUpTo(QuoteTexts, MaxQuoted + 1) : q # <<>>},
     hasReply : BOOLEAN,
     reply : ReplyTexts]
WellFormed == {w \in Replies : ~w.hasReply => w.reply = <<>>}

RECURSIVE QuotedBlock(_)
QuotedBlock(texts) ==
    IF texts = <<>> THEN <<>>
    ELSE <<NL, ">", " ">> \o Head(texts) \o QuotedBlock(Tail(texts))

FallbackBody(w) ==
    <<">", " ", "<">> \o w.sender \o <<">", " ">> \o Head(w.quoted)
        \o QuotedBlock(Tail(w.quoted))
        \o (IF w.hasReply THEN <<NL, NL>> \o w.reply ELSE <<>>)

fallback_extracted(w) ==
    Apply("extract_reply_fallback", w, extract_reply_fallback(FallbackBody(w)))

fallback_stripped(w) ==
    Apply("strip_reply_fallback", w, strip_reply_fallback(FallbackBody(w)))

\* ----------------------------------------------------------- mxc_to_http
NoUrl == [some |-> FALSE]
Url(u) == [some |-> TRUE, url |-> u]

\* "mxc://"
MxcScheme ==
    <<"m", "x", "c", ":", "/", "/">>

\* "/_matrix/media/v3/thumbnail/"
ThumbnailPath ==
    <<"/", "_", "m", "a", "t", "r", "i", "x", "/", "m", "e", "d",
      "i", "a", "/", "v", "3", "/", "t", "h", "u", "m", "b", "n",
      "a", "i", "l", "/">>

\* "?width=96&height=96&method=crop"
ThumbnailQuery ==
    <<"?", "w", "i", "d", "t", "h", "=", "9", "6", "&", "h", "e",
      "i", "g", "h", "t", "=", "9", "6", "&", "m", "e", "t", "h",
      "o", "d", "=", "c", "r", "o", "p">>

\* Variant: the homeserver URL is used as given.
trim_end_matches_kept(str, c) == str

\* str::trim_end_matches(c)
RECURSIVE trim_end_matches(_, _)
trim_end_matches(str, c) ==
    IF str # <<>> /\ str[Len(str)] = c
    THEN trim_end_matches(SubSeq(str, 1, Len(str) - 1), c)
    ELSE str

mxc_to_http(homeserver, mxc_url) ==
    IF ~StartsWith(mxc_url, MxcScheme) THEN NoUrl
    ELSE LET path == From(mxc_url, Len(MxcScheme))
             slash == Find(path, "/")
             server_name == SubSeq(path, 1, slash - 1)
             media_id == From(path, slash)
         IN  IF slash = 0 THEN NoUrl
             ELSE Url(trim_end_matches(homeserver, "/") \o ThumbnailPath
                      \o server_name \o <<"/">> \o media_id
                      \o ThumbnailQuery)

\* Homeserver URLs, with and without trailing slashes and a path.
Homeservers ==
    {<<"h">>, <<"h", "/">>, <<"h", "/", "/">>, <<"h", "/", "p">>,
     <<"h", "/", "p", "/">>, <<>>}

\* Media references: a scheme, whole, cut short, preceded by a character
\* or another one, followed by up to MaxRef characters.
Schemes ==
    {MxcScheme, SubSeq(MxcScheme, 1, Len(MxcScheme) - 1),
     <<"x">> \o MxcScheme, <<"h", ":", "/", "/">>, <<>>}
MediaRefs ==
    {sch \o rest : sch \in Schemes, rest \in SeqsUpTo({"s", "i", "/"}, MaxRef)}

thumbnail_url(homeserver, mxc_url) ==
    Apply("mxc_to_http",
          [homeserver |-> homeserver, mxc_url |-> mxc_url],
          [plain |-> mxc_to_http(homeserver, mxc_url),
           slashed |-> mxc_to_http(homeserver \o <<"/">>, mxc_url)])

\* -------------------------------------------------------------- presence
\* get_presence responses: the optional fields and the state; "busy" stands
\* for a state other than the three the protocol names.
PresenceStates == {"online", "unavailable", "offline", "busy"}
PresenceResponses ==
    [currently_active : {"none", "true", "false"},
     last_active_ago : {"none", "0s", "7s"},
     presence : PresenceStates]
PresenceReplies ==
    {[kind |-> "ok", response |-> r] : r \in PresenceResponses}
        \cup {[kind |-> "error"]}
Elapsed == [kind |-> "elapsed"]

\* tokio::time::timeout(3 s, client.send(request)): the reply when it comes
\* first, Elapsed when the time runs out first, either when they coincide.
presence_timeout(latency, reply) ==
    IF latency < PresenceTimeoutSecs THEN {reply}
    ELSE IF latency = PresenceTimeoutSecs THEN {reply, Elapsed}
    ELSE {Elapsed}

\* Variant: any one of the three signs marks the response as stale.
is_stale_any(response) ==
    \/ response.currently_active = "none"
    \/ response.last_active_ago = "none"
    \/ response.presence = "offline"

\* currently_active.is_none() && last_active_ago.is_none()
\*     && presence == PresenceState::Offline
is_stale(response) ==
    /\ response.currently_active = "none"
    /\ response.last_active_ago = "none"
    /\ response.presence = "offline"

\* match response.presence { Online => "online", Unavailable => "away",
\*                           _ => "offline" }
presence_tag(state) ==
    CASE state = "online" -> "online"
      [] state = "unavailable" -> "away"
      [] OTHER -> "offline"

NoPresence == [some |-> FALSE]
SomePresence(status) == [some |-> TRUE, status |-> status]

fetch_user_presence(outcome) ==
    IF outcome.kind = "ok"
    THEN IF is_stale(outcome.response) THEN NoPresence
         ELSE SomePresence(presence_tag(outcome.response.presence))
    ELSE NoPresence

\* get_buddy_list: the presence tag of the first buddy it resolves.
buddy_presence(outcome) ==
    LET fetched == fetch_user_presence(outcome)
    IN  [fetched |-> fetched,
         presence |-> IF fetched.some THEN fetched.status ELSE "unknown"]

\* get_user_profile: presence and last_seen_ago of the profile.
profile_presence(outcome) ==
    IF outcome.kind = "ok" /\ ~is_stale(outcome.response)
    THEN [presence |-> presence_tag(outcome.response.presence),
          last_seen_ago |-> outcome.response.last_active_ago]
    ELSE [presence |-> "unknown", last_seen_ago |-> "none"]

get_buddy_list_presence(latency, outcome) ==
    Apply("fetch_user_presence",
          [latency |-> latency, outcome |-> outcome],
          buddy_presence(outcome))

get_user_profile_presence(latency, outcome) ==
    Apply("get_user_profile",
          [latency |-> latency, outcome |-> outcome],
          profile_presence(outcome))

\* ---------------------------------------------------------- verification
\* One flow id, as the SDK of the cloned client knows it.
\*   request: the VerificationRequest that get_verification_request finds
\*            ("none" when it finds nothing),
\*   sas:     the Verification that get_verification finds ("none" when it
\*            finds nothing, "other" when it is not a SAS verification,
\*            "codes" when the SAS has its emoji).
\* The SDK is not part of the sources: what its calls return is drawn from
\* the outcomes their signatures allow.
Phase1Polls == 40
Phase2Polls == 60

RequestStates == {"none", "requested", "ready", "started", "cancelled"}
SasStates == {"none", "started", "codes", "done", "cancelled", "other"}
IsSas(v) == v \in {"started", "codes", "done", "cancelled"}

EMOJIS == "verification_emojis"
DONE == "verification_done"
CANCELLED == "verification_cancelled"
Notification(event, reason) == [event |-> event, reason |-> reason]

\* A driver task: where it is, the loop variable of the phase it is in,
\* sas_opt ("us" or "peer" for the side that started the SAS it holds) and
\* what it has emitted.
NewDriver == [pc |-> "p1", i |-> 0, sas_opt |-> "none", out |-> <<>>]

\* call: the SDK call the last verification command made, and whether it
\* succeeded.
NoSdkCall == [op |-> "none", ok |-> FALSE]
SdkCall(op, ok) == [op |-> op, ok |-> ok]
NoVerification ==
    [request |-> "none", sas |-> "none", drivers |-> <<>>, out |-> <<>>,
     call |-> NoSdkCall]

\* The flow ids a run may begin with: unknown to the SDK, an inbound
\* request, or a key exchange the peer started without a request.
KnownFlows ==
    {[NoVerification EXCEPT !.request = r, !.sas = v] :
        <<r, v>> \in {<<"none", "none">>, <<"requested", "none">>,
                      <<"none", "started">>}}

\* What the verification commands and tasks leave alone.
VerificationFrame ==
    UNCHANGED <<client, file, running, tracked, nextConn, syncCalls, local,
                observe, cleared, sess, saved, hb, fx, sy, lg, pl, mx>>

BeginVerification(p) ==
    /\ pc[p] = "idle"
    /\ budget > 0
    /\ budget' = budget - 1
    /\ VerificationFrame

AtVerification(p, where) ==
    /\ pc[p] = where
    /\ UNCHANGED budget
    /\ VerificationFrame

\* app.emit(event, payload)
Emit(v, n) == [v EXCEPT !.out = Append(@, n)]

\* ------------------------------------------------- accept_verification
\* lock; client_lock.as_ref().ok_or("Not logged in")?.clone(); drop;
\* UserId::parse(&user_id)?
accept_verification_clone(p, uidOk) ==
    /\ BeginVerification(p)
    /\ lockHolder = 0
    /\ IF client = NoClient
       THEN /\ Return(p, "accept_verification", FALSE, "Not logged in")
            /\ UNCHANGED lockHolder
       ELSE /\ lockHolder' = drop_client_lock(p)
            /\ IF ~uidOk
               THEN Return(p, "accept_verification", FALSE, "Invalid user_id")
               ELSE Goto(p, "accept_request")
    /\ UNCHANGED vf

\* get_verification_request(..).ok_or(..)?; request.accept().await?;
\* tokio::spawn(driver); Ok(())
accept_verification_request(p, ok) ==
    /\ AtVerification(p, "accept_request")
    /\ IF vf.request = "none"
       THEN /\ Return(p, "accept_verification", FALSE,
                      "Verification request not found")
            /\ UNCHANGED vf
       ELSE IF ~ok
       THEN /\ Return(p, "accept_verification", FALSE, "Failed to accept")
            /\ vf' = [vf EXCEPT !.call = SdkCall("accept", FALSE)]
       ELSE /\ vf' = [vf EXCEPT
                        !.request = IF @ = "requested" THEN "ready" ELSE @,
                        !.drivers = Append(@, NewDriver),
                        !.call = SdkCall("accept", TRUE)]
            /\ Return(p, "accept_verification", TRUE, "")
    /\ UNCHANGED lockHolder

\* ---------------------------------------------------- the driver task
\* Variant: an iteration whose start_sas fails is not counted.
next_poll_uncounted(i) == i

\* for i in 0..40 / for i in 0..60: the next iteration.
next_poll(i) == i + 1

\* What request.start_sas() can return.
StartSasOutcomes ==
    IF vf.request = "ready" /\ vf.sas = "none"
    THEN {"started", "nothing", "error"}
    ELSE {"nothing", "error"}

\* Phase 1, one iteration up to the match on start_sas: sleep(500 ms);
\* match request.start_sas().await { Ok(Some) => break,
\*                                    Ok(None) => lookup, Err => log }
driver_start_sas(d, o) ==
    /\ d \in DOMAIN vf.drivers
    /\ vf.drivers[d].pc = "p1"
    /\ vf.drivers[d].i < Phase1Polls
    /\ o \in StartSasOutcomes
    /\ vf' = [vf EXCEPT
               !.request = IF o = "started" THEN "started" ELSE @,
               !.sas = IF o = "started" THEN "started" ELSE @,
               !.drivers[d] =
                   [@ EXCEPT
                      !.sas_opt = IF o = "started" THEN "us" ELSE @,
                      !.i = CASE o = "started" -> 0
                              [] o = "nothing" -> @
                              [] o = "error" -> next_poll(@),
                      !.pc = CASE o = "started" -> "p2"
                               [] o = "nothing" -> "p1_lookup"
                               [] o = "error" -> "p1"]]
    /\ UNCHANGED <<sessionVars>>
    /\ UNCHANGED <<hb, fx, sy, lg, pl, mx>>

\* Variant: the peer's key exchange is not looked up.
peer_sas_ignored(v) == FALSE

\* get_verification(&uid, &fid) is Some and verification.sas() is Some
peer_sas(v) == IsSas(v)

\* Ok(None) => if the other side started SAS { break }
driver_lookup(d) ==
    /\ d \in DOMAIN vf.drivers
    /\ vf.drivers[d].pc = "p1_lookup"
    /\ vf' = [vf EXCEPT
               !.drivers[d] =
                   IF peer_sas(vf.sas)
                   THEN [@ EXCEPT !.pc = "p2", !.i = 0, !.sas_opt = "peer"]
                   ELSE [@ EXCEPT !.pc = "p1", !.i = next_poll(@)]]
    /\ UNCHANGED <<sessionVars>>
    /\ UNCHANGED <<hb, fx, sy, lg, pl, mx>>

\* sas_opt is None after the loop: emit verification_cancelled; return
driver_phase1_timeout(d) ==
    /\ d \in DOMAIN vf.drivers
    /\ vf.drivers[d].pc = "p1"
    /\ vf.drivers[d].i = Phase1Polls
    /\ LET n == Notification(CANCELLED, "Timed out starting SAS")
       IN  vf' = [Emit(vf, n) EXCEPT
                    !.drivers[d] =
                        [@ EXCEPT !.pc = "ended", !.out = Append(@, n)]]
    /\ UNCHANGED <<sessionVars>>
    /\ UNCHANGED <<hb, fx, sy, lg, pl, mx>>

\* Variant: the loop goes on after the emoji were emitted.
emoji_continue == "p2"

\* let _ = app.emit("verification_emojis", &payload); return;
emoji_return == "ended"

\* Phase 2, one iteration: sleep(500 ms); if let Some(emojis) = sas.emoji()
\* { emit verification_emojis; return }
driver_emoji(d) ==
    /\ d \in DOMAIN vf.drivers
    /\ vf.drivers[d].pc = "p2"
    /\ vf.drivers[d].i < Phase2Polls
    /\ LET n == Notification(EMOJIS, "")
       IN  vf' = IF vf.sas = "codes"
                 THEN [Emit(vf, n) EXCEPT
                         !.drivers[d] =
                             [@ EXCEPT !.pc = emoji_return,
                                       !.i = IF emoji_return = "ended"
                                             THEN @ ELSE next_poll(@),
                                       !.out = Append(@, n)]]
                 ELSE [vf EXCEPT !.drivers[d].i = next_poll(@)]
    /\ UNCHANGED <<sessionVars>>
    /\ UNCHANGED <<hb, fx, sy, lg, pl, mx>>

\* after the loop: emit verification_cancelled
driver_phase2_timeout(d) ==
    /\ d \in DOMAIN vf.drivers
    /\ vf.drivers[d].pc = "p2"
    /\ vf.drivers[d].i = Phase2Polls
    /\ LET n == Notification(CANCELLED, "Timed out waiting for emojis")
       IN  vf' = [Emit(vf, n) EXCEPT
                    !.drivers[d] =
                        [@ EXCEPT !.pc = "ended", !.out = Append(@, n)]]
    /\ UNCHANGED <<sessionVars>>
    /\ UNCHANGED <<hb, fx, sy, lg, pl, mx>>

Driver(d) ==
    \/ \E o \in {"started", "nothing", "error"} : driver_start_sas(d, o)
    \/ driver_lookup(d)
    \/ driver_phase1_timeout(d)
    \/ driver_emoji(d)
    \/ driver_phase2_timeout(d)

\* ------------------------------------------------ confirm_verification
\* lock; as_ref().ok_or("Not logged in")?; UserId::parse(&user_id)?
confirm_verification_lock(p, uidOk) ==
    /\ BeginVerification(p)
    /\ lockHolder = 0
    /\ IF client = NoClient
       THEN /\ Return(p, "confirm_verification", FALSE, "Not logged in")
            /\ UNCHANGED lockHolder
       ELSE IF ~uidOk
       THEN /\ Return(p, "confirm_verification", FALSE, "Invalid user_id")
            /\ UNCHANGED lockHolder
       ELSE /\ Goto(p, "confirm_send")
            /\ lockHolder' = p
    /\ UNCHANGED vf

\* Variant: a failed confirm call is ignored.
confirm_failure_ignored(ok) == TRUE

\* sas.confirm().await.map_err(..)?
confirm_failure_propagated(ok) == ok

\* get_verification(..).ok_or(..)?; verification.sas().ok_or(..)?;
\* sas.confirm().await?; emit verification_done; Ok(())
confirm_verification_send(p, ok) ==
    /\ AtVerification(p, "confirm_send")
    /\ lockHolder' = 0
    /\ IF vf.sas = "none"
       THEN /\ Return(p, "confirm_verification", FALSE,
                      "Verification not found")
            /\ UNCHANGED vf
       ELSE IF ~IsSas(vf.sas)
       THEN /\ Return(p, "confirm_verification", FALSE,
                      "Not a SAS verification")
            /\ UNCHANGED vf
       ELSE IF ~confirm_failure_propagated(ok)
       THEN /\ Return(p, "confirm_verification", FALSE, "Failed to confirm")
            /\ vf' = [vf EXCEPT !.call = SdkCall("confirm", FALSE)]
       ELSE /\ vf' = [Emit(vf, Notification(DONE, "")) EXCEPT
                        !.sas = IF @ = "codes" /\ ok THEN "done" ELSE @,
                        !.call = SdkCall("confirm", ok)]
            /\ Return(p, "confirm_verification", TRUE, "")

\* ------------------------------------------------- cancel_verification
cancel_verification_lock(p, uidOk) ==
    /\ BeginVerification(p)
    /\ lockHolder = 0
    /\ IF client = NoClient
       THEN /\ Return(p, "cancel_verification", FALSE, "Not logged in")
            /\ UNCHANGED lockHolder
       ELSE IF ~uidOk
       THEN /\ Return(p, "cancel_verification", FALSE, "Invalid user_id")
            /\ UNCHANGED lockHolder
       ELSE /\ Goto(p, "cancel_send")
            /\ lockHolder' = p
    /\ UNCHANGED vf

\* Variant: a failed cancel or mismatch call is ignored.
cancel_failure_ignored(ok) == TRUE

\* request.cancel().await.map_err(..)? / sas.mismatch().await.map_err(..)?
cancel_failure_propagated(ok) == ok

\* if let Some(request) = get_verification_request(..) { request.cancel()? }
\* else if let Some(verification) = get_verification(..)
\*     { if let Some(sas) = verification.sas() { sas.mismatch()? } }
\* emit verification_cancelled; Ok(())
cancel_verification_send(p, ok) ==
    /\ AtVerification(p, "cancel_send")
    /\ lockHolder' = 0
    /\ LET calls == vf.request # "none" \/ IsSas(vf.sas)
           op == IF vf.request # "none" THEN "cancel" ELSE "mismatch"
           cancelled ==
               IF calls /\ ok
               THEN [vf EXCEPT
                       !.request = IF @ = "none" THEN @ ELSE "cancelled",
                       !.sas = IF @ \in {"started", "codes"}
                               THEN "cancelled" ELSE @,
                       !.call = SdkCall(op, TRUE)]
               ELSE [vf EXCEPT
                       !.call = IF calls THEN SdkCall(op, FALSE)
                                ELSE NoSdkCall]
       IN  IF calls /\ ~cancel_failure_propagated(ok)
           THEN /\ Return(p, "cancel_verification", FALSE,
                          "Failed to cancel")
                /\ vf' = cancelled
           ELSE /\ vf' = Emit(cancelled, Notification(CANCELLED, ""))
                /\ Return(p, "cancel_verification", TRUE, "")

\* ------------------------------------------- the peer, through the sync
\* The peer starts the key exchange, or a verification of another kind.
peer_starts(v) ==
    /\ vf.request = "ready"
    /\ vf.sas = "none"
    /\ v \in {"started", "other"}
    /\ vf' = [vf EXCEPT !.request = "started", !.sas = v]
    /\ UNCHANGED <<sessionVars>>
    /\ UNCHANGED <<hb, fx, sy, lg, pl, mx>>

\* The key exchange completes: the SAS has its emoji.
keys_exchanged ==
    /\ vf.sas = "started"
    /\ vf' = [vf EXCEPT !.sas = "codes"]
    /\ UNCHANGED <<sessionVars>>
    /\ UNCHANGED <<hb, fx, sy, lg, pl, mx>>

\* The peer cancels the flow.
peer_cancels ==
    /\ \/ vf.request \in {"requested", "ready", "started"}
       \/ vf.sas \in {"started", "codes"}
    /\ vf' = [vf EXCEPT
               !.request = IF @ = "none" THEN @ ELSE "cancelled",
               !.sas = IF @ \in {"started", "codes"} THEN "cancelled" ELSE @]
    /\ UNCHANGED <<sessionVars>>
    /\ UNCHANGED <<hb, fx, sy, lg, pl, mx>>

Peer ==
    \/ \E v \in {"started", "other"} : peer_starts(v)
    \/ keys_exchanged
    \/ peer_cancels

\* accept_verification, while fewer than MaxDrivers drivers were spawned.
AcceptVerification(p) ==
    \/ /\ Len(vf.drivers) < MaxDrivers
       /\ \E uidOk \in BOOLEAN : accept_verification_clone(p, uidOk)
    \/ \E ok \in BOOLEAN : accept_verification_request(p, ok)

ConfirmVerification(p) ==
    \/ \E uidOk \in BOOLEAN : confirm_verification_lock(p, uidOk)
    \/ \E ok \in BOOLEAN : confirm_verification_send(p, ok)

CancelVerification(p) ==
    \/ \E uidOk \in BOOLEAN : cancel_verification_lock(p, uidOk)
    \/ \E ok \in BOOLEAN : cancel_verification_send(p, ok)

\* accept_verification, as often as the run's commands allow.
AcceptAgain(p) ==
    \/ \E uidOk \in BOOLEAN : accept_verification_clone(p, uidOk)
    \/ \E ok \in BOOLEAN : accept_verification_request(p, ok)

\* ---------------------------------------------------------------- the log
\* ServerLog: a Vec<LogEntry> behind a std::sync::Mutex.  An entry is named
\* by its place in the order in which the pushes took the mutex.
LogCapacity == 500

Writers == {1, 2}

\* entries: the Vec; pushed: pushes made so far; building: the writers that
\* have built their LogEntry and wait for the mutex; snapshot: what the last
\* get_all returned, until the next push.
NoLog == [entries |-> <<>>, pushed |-> 0, building |-> {}, snapshot |-> <<>>]

\* Variant: the excess is cut off the end of the Vec.
drain_back(entries, excess) == SubSeq(entries, 1, Len(entries) - excess)

\* entries.drain(..excess)
drain(entries, excess) == SubSeq(entries, excess + 1, Len(entries))

\* if entries.len() > 500 { let excess = entries.len() - 500; drain }
keep_last(entries) ==
    IF Len(entries) > LogCapacity
    THEN drain(entries, Len(entries) - LogCapacity)
    ELSE entries

\* push: let entry = LogEntry { timestamp: now, level, message };
push_build(w) ==
    /\ w \notin lg.building
    /\ lg.pushed + Cardinality(lg.building) < MaxPushes
    /\ lg' = [lg EXCEPT !.building = @ \cup {w}]
    /\ UNCHANGED <<sessionVars, hb, fx, sy, vf, pl, mx>>

\* push: entries.lock().unwrap(); entries.push(entry); keep the last 500
push_locked(w) ==
    /\ w \in lg.building
    /\ lg' = [lg EXCEPT !.building = @ \ {w},
                        !.pushed = @ + 1,
                        !.entries = keep_last(Append(@, lg.pushed + 1)),
                        !.snapshot = <<>>]
    /\ UNCHANGED <<sessionVars, hb, fx, sy, vf, pl, mx>>

\* get_all: self.entries.lock().unwrap().clone()
get_all ==
    /\ lg.snapshot # lg.entries
    /\ lg' = [lg EXCEPT !.snapshot = lg.entries]
    /\ UNCHANGED <<sessionVars, hb, fx, sy, vf, pl, mx>>

ServerLog ==
    \/ \E w \in Writers : push_build(w) \/ push_locked(w)
    \/ get_all

\* --------------------------------------------------- message normalization
\* What the live message handler and get_room_messages make of one
\* unredacted room message that is no edit.
None == [some |-> FALSE]
Some(v) == [some |-> TRUE, val |-> v]

FALLBACK == "fallback"

\* The payload bodies: plain text, a well-formed reply fallback, the marker
\* without the closing bracket of the sender, a quoted line that is no
\* marker, and the empty body.
PayloadBodies ==
    {<<"a">>,
     <<">", " ", "<", "a", ">", " ", "a", NL, NL, "a">>,
     <<">", " ", "<", "a">>,
     <<">", " ", "a">>,
     <<>>}

\* content.relates_to as the typed parser sees it (rel, and target: the
\* event id of its in_reply_to, "" when it has none), and raw: the string at
\* /content/m.relates_to/m.in_reply_to/event_id of the raw JSON, "" when
\* there is none.  A relation of another kind can carry any string there.
Relating ==
    {[rel |-> "none", target |-> "", raw |-> ""],
     [rel |-> "reply", target |-> "$e1", raw |-> "$e1"],
     [rel |-> "thread", target |-> "$e1", raw |-> "$e1"],
     [rel |-> "thread", target |-> "", raw |-> ""],
     [rel |-> "other", target |-> "", raw |-> ""],
     [rel |-> "other", target |-> "", raw |-> "$e1"],
     [rel |-> "other", target |-> "", raw |-> FALLBACK]}

NormEvents ==
    {[id |-> "$e2", rel |-> r.rel, target |-> r.target, raw |-> r.raw,
      msgtype |-> m, body |-> b] :
        r \in Relating, m \in MsgTypes, b \in PayloadBodies}

\* match relation { Reply { in_reply_to } => Some(event_id),
\*                  Thread(thread) => thread.in_reply_to's event_id,
\*                  _ => {} }
typed_in_reply_to(e) ==
    CASE e.rel = "reply" -> Some(e.target)
      [] e.rel = "thread" /\ e.target # "" -> Some(e.target)
      [] OTHER -> None

\* raw_json.pointer("/content/m.relates_to/m.in_reply_to/event_id")
\*     .and_then(|v| v.as_str())
raw_in_reply_to(e) == IF e.raw # "" THEN Some(e.raw) ELSE None

\* get_room_messages: the typed relation, else the raw payload.
history_in_reply_to(e) ==
    IF typed_in_reply_to(e) = None THEN raw_in_reply_to(e)
    ELSE typed_in_reply_to(e)

\* The live handler: the typed relation.
live_in_reply_to(e) == typed_in_reply_to(e)

\* match &original.content.msgtype { Text | Notice | Emote | Image | File |
\*                                   Audio | Video => ..., _ => ... }
\* without the arm for the other subtypes.
classify(e) ==
    CASE e.msgtype \in {"text", "notice"} ->
             [body |-> e.body, msg_type |-> "text"]
      [] e.msgtype = "emote" ->
             [body |-> <<"*", " ">> \o e.body, msg_type |-> "text"]
      [] OTHER -> [body |-> e.body, msg_type |-> e.msgtype]

Recognized == {"text", "notice", "emote", "image", "file", "audio", "video"}

\* _ => (String::new(), "unknown".to_string(), None, None)
Unknown == [body |-> <<>>, msg_type |-> "unknown"]

\* Variant: the sentinel is set whether or not a target was found.
sentinel_always(in_reply_to) == Some(FALLBACK)

\* if in_reply_to.is_none() { in_reply_to = Some("fallback") }
sentinel_if_none(in_reply_to) ==
    IF in_reply_to = None THEN Some(FALLBACK) ELSE in_reply_to

\* The Message built from the classification c and the reply target found:
\* if msg_type == "text" && body.starts_with("> <") { sentinel; extract;
\* strip }.
Message(e, c, in_reply_to) ==
    LET marked == c.msg_type = "text" /\ StartsWith(c.body, <<">", " ", "<">>)
        quote == IF marked THEN extract_reply_fallback(c.body)
                 ELSE NoReplyFallback
    IN  [event_id |-> e.id,
         body |-> IF marked THEN strip_reply_fallback(c.body) ELSE c.body,
         msg_type |-> c.msg_type,
         in_reply_to |-> IF marked THEN sentinel_if_none(in_reply_to)
                         ELSE in_reply_to,
         reply_sender_name |-> IF quote.some THEN Some(quote.sender)
                               ELSE None,
         reply_body |-> IF quote.some THEN Some(quote.quoted) ELSE None]

\* get_room_messages, one event of the chunk: the message pushed.
history_message(e) ==
    <<Message(e, IF e.msgtype \in Recognized THEN classify(e) ELSE Unknown,
              history_in_reply_to(e))>>

\* The live handler: the new_message notification emitted; `_ => return`
\* for the other subtypes.
live_message(e) ==
    IF e.msgtype \in Recognized
    THEN <<Message(e, classify(e), live_in_reply_to(e))>>
    ELSE <<>>

history_normalized(e) == Apply("history", e, history_message(e))

live_normalized(e) == Apply("live", e, live_message(e))

\* ------------------------------------------------------------- fetch_media
\* The bodies an endpoint can send, as bytes: empty, PNG, JPEG, GIF, WebP
\* (RIFF) and something else.
MediaBodies ==
    {<<>>, <<137, 80, 78, 71, 1>>, <<255, 216, 1>>, <<71, 73, 70, 1>>,
     <<82, 73, 70, 70>>, <<1, 2>>}

\* What one endpoint does with a request: the transport fails, or it answers
\* with a status and a body, which may fail to arrive.
NoAnswer == [kind |-> "error", status |-> 0, read |-> FALSE, bytes |-> <<>>]
Answer(status, read, bytes) ==
    [kind |-> "response", status |-> status, read |-> read, bytes |-> bytes]
EndpointAnswers ==
    {NoAnswer, Answer(404, TRUE, <<1, 2>>), Answer(500, TRUE, <<>>),
     Answer(200, FALSE, <<>>)}
        \cup {Answer(200, TRUE, b) : b \in MediaBodies}

\* The two download URLs, in the order of the array.
AUTHENTICATED == "/_matrix/client/v1/media/download/"
UNAUTHENTICATED == "/_matrix/media/v3/download/"
Endpoints == <<AUTHENTICATED, UNAUTHENTICATED>>

\* A call: the reference ("ok", or what is wrong with it), whether the
\* client has an access token, and each endpoint's answer.
MediaCalls ==
    [mxc : {"ok", "no scheme", "no slash"}, token : BOOLEAN,
     answers : [1..2 -> EndpointAnswers]]

\* The content type sniffed from the first bytes.
sniff(bytes) ==
    IF StartsWith(bytes, <<137, 80, 78, 71>>) THEN "image/png"
    ELSE IF StartsWith(bytes, <<255, 216>>) THEN "image/jpeg"
    ELSE IF StartsWith(bytes, <<71, 73, 70>>) THEN "image/gif"
    ELSE IF StartsWith(bytes, <<82, 73, 70, 70>>) THEN "image/webp"
    ELSE "application/octet-stream"

\* format!("data:{};base64,{}", content_type, b64): the data URL, by its
\* content type and the bytes it encodes.
DataUrl(bytes) == [content_type |-> sniff(bytes), encodes |-> bytes]

\* Variant: an empty body is returned like any other.
is_empty_never(bytes) == FALSE

\* bytes.is_empty()
is_empty(bytes) == bytes = <<>>

\* One iteration of `for url in &urls`: Some(data URL) when the function
\* returns from it, None when the loop goes on.
try_endpoint(a) ==
    IF a.kind = "response" /\ IsSuccess(a.status) /\ a.read
          /\ ~is_empty(a.bytes)
    THEN Some(DataUrl(a.bytes))
    ELSE None

\* The command after the handle was found: its result and the endpoints it
\* requested, in order.
fetch_media(c) ==
    LET Err(v) == [ok |-> FALSE, val |-> v, requested |-> <<>>]
        first == try_endpoint(c.answers[1])
        second == try_endpoint(c.answers[2])
    IN  CASE c.mxc = "no scheme" -> Err("Invalid mxc:// URL")
          [] c.mxc = "no slash" -> Err("Invalid mxc URL format")
          [] ~c.token -> Err("No access token available")
          [] first.some ->
                 [ok |-> TRUE, val |-> first.val,
                  requested |-> SubSeq(Endpoints, 1, 1)]
          [] second.some ->
                 [ok |-> TRUE, val |-> second.val, requested |-> Endpoints]
          [] OTHER ->
                 [ok |-> FALSE, val |-> "Failed to fetch media from any endpoint",
                  requested |-> Endpoints]

media_fetched(c) == Apply("fetch_media", c, fetch_media(c))

\* ----------------------------------------------------- the room-list poller
\* The task start_sync spawns first: it remembers the ids of the joined
\* rooms and, every 3 seconds, compares the ids with what it remembers.
RoomIds == {"!a:hs", "!b:hs"}

ROOMS_CHANGED == "rooms_changed"

\* joined: what poll_client.joined_rooms() returns now; known: known_ids;
\* polls: iterations made; out: the notifications emitted; last: the set read
\* by the latest read of the joined rooms (history).
NoPoller == [pc |-> "none", joined |-> {}, known |-> {}, polls |-> 0,
             out |-> <<>>, last |-> {}]

\* Variant: the remembered set is never replaced.
known_ids_kept(known_ids, current_ids) == known_ids

\* known_ids = current_ids
known_ids_replaced(known_ids, current_ids) == current_ids

\* let mut known_ids = poll_client.joined_rooms() ... .collect();
poll_task_start ==
    /\ pl.pc = "spawned"
    /\ pl' = [pl EXCEPT !.pc = "loop", !.known = pl.joined,
                        !.last = pl.joined]
    /\ UNCHANGED <<sessionVars, hb, fx, sy, vf, lg, mx>>

\* loop { sleep(3 s); let current_ids = ...;
\*        if current_ids != known_ids { log; known_ids = current_ids;
\*                                      emit("rooms_changed", "") } }
poll_task_poll ==
    /\ pl.pc = "loop"
    /\ pl.polls < MaxPolls
    /\ LET current_ids == pl.joined
       IN  pl' = [pl EXCEPT
                    !.polls = @ + 1,
                    !.last = current_ids,
                    !.known = IF current_ids # pl.known
                              THEN known_ids_replaced(@, current_ids)
                              ELSE @,
                    !.out = IF current_ids # pl.known
                            THEN Append(@, ROOMS_CHANGED)
                            ELSE @]
    /\ UNCHANGED <<sessionVars, hb, fx, sy, vf, lg, mx>>

\* The sync stores a join or a leave: the joined rooms are now S.
rooms_change(S) ==
    /\ pl.pc # "none"
    /\ S # pl.joined
    /\ pl' = [pl EXCEPT !.joined = S]
    /\ UNCHANGED <<sessionVars, hb, fx, sy, vf, lg, mx>>

PollTask ==
    \/ poll_task_start
    \/ poll_task_poll
    \/ \E S \in SUBSET RoomIds : rooms_change(S)

\* --------------------------------------------------------- specifications
\* No session command is in progress or begins.
SessionIdle == InitWith(0, FALSE) /\ file = Absent

\* Nothing outside the session commands is in progress or begins.
OthersIdle ==
    /\ hb = NoHb
    /\ fx = NoCall
    /\ sy = NoSync
    /\ vf = NoVerification
    /\ lg = NoLog /\ pl = NoPoller /\ mx = 0


Register(p, US, FR, RR) ==
    \/ \E u \in US, v \in BOOLEAN : matrix_register_start(p, u, v)
    \/ \E o \in BuildOutcomes : matrix_register_build(p, o)
    \/ \E r \in FR : matrix_register_first(p, r)
    \/ \E r \in RR : matrix_register_retry(p, r)
    \/ \E ok \in BOOLEAN : finish_registration_restore(p, ok)
    \/ finish_registration_save(p)
    \/ finish_registration_install(p)

Login(p, US) ==
    \/ \E u \in US, v \in BOOLEAN : matrix_login_start(p, u, v)
    \/ \E o \in BuildOutcomes : matrix_login_build(p, o)
    \/ \E o \in BuildOutcomes : matrix_login_send(p, o)
    \/ matrix_login_save(p)
    \/ matrix_login_install(p)

Logout(p) ==
    \/ matrix_logout_abort(p)
    \/ matrix_logout_lock(p)
    \/ \E ok \in BOOLEAN : matrix_logout_remote(p, ok)
    \/ matrix_logout_clear(p)
    \/ matrix_logout_delete(p)

Disconnect(p) ==
    \/ matrix_disconnect_abort(p)
    \/ matrix_disconnect_clear(p)

Restore(p) ==
    \/ try_restore_session_check(p)
    \/ try_restore_session_read(p)
    \/ \E o \in BuildOutcomes : try_restore_session_build(p, o)
    \/ \E ok \in BOOLEAN : try_restore_session_apply(p, ok)
    \/ try_restore_session_install(p)

StartSync(p) ==
    \/ start_sync_clone(p)
    \/ start_sync_abort(p)
    \/ start_sync_spawn(p)
    \/ start_sync_record(p)

HandleCommand(p, CS) ==
    \/ \E c \in CS : handle_command_lock(p, c)
    \/ \E c \in CS, ok \in BOOLEAN : handle_command_run(p, c, ok)

Command(p, US, FR, RR) ==
    \/ Login(p, US)
    \/ Register(p, US, FR, RR)
    \/ Logout(p)
    \/ Disconnect(p)
    \/ Restore(p)
    \/ StartSync(p)

\* ------------------------------------- the sync_tasks mutex, step by step
\* The places where a command takes the std::sync::Mutex around the task
\* handles: abort_sync_tasks() in logout, disconnect and start_sync, and
\* the recording of the two new handles at the end of start_sync.
MutexPoints ==
    {"logout_abort", "disconnect_abort", "sync_abort", "sync_record"}

\* Variant: the guard outlives the block that took it.
sync_tasks_guard_kept(p) == p

\* The MutexGuard goes out of scope at the end of abort_sync_tasks, and at
\* the end of the block that records the handles.
drop_sync_tasks_guard(p) == 0

\* matrix_logout is invoked and logs its first line.
matrix_logout_invoked(p) ==
    /\ Begin(p)
    /\ sess' = NoSess
    /\ local' = [local EXCEPT ![p] = NoLocal]
    /\ Goto(p, "logout_abort")
    /\ UNCHANGED <<client, lockHolder, file, running, tracked, nextConn,
                   syncCalls, cleared>>

\* matrix_disconnect is invoked.
matrix_disconnect_invoked(p) ==
    /\ Begin(p)
    /\ local' = [local EXCEPT ![p] = NoLocal]
    /\ Goto(p, "disconnect_abort")
    /\ UNCHANGED <<client, lockHolder, file, running, tracked, nextConn,
                   syncCalls, cleared, sess>>

\* self.sync_tasks.lock().unwrap(): the thread blocks until the mutex is
\* free.
sync_tasks_lock(p) ==
    /\ pc[p] \in MutexPoints
    /\ mx = 0
    /\ mx' = p
    /\ UNCHANGED <<sessionVars, hb, fx, sy, vf, lg, pl>>

\* Where a command goes on after abort_sync_tasks() has returned.
AfterAbort(where) ==
    CASE where = "logout_abort" -> "logout_lock"
      [] where = "disconnect_abort" -> "disconnect_clear"
      [] where = "sync_abort" -> "sync_spawn"

\* for task in tasks.drain(..) { task.abort() } under the guard.
abort_sync_tasks_locked(p) ==
    /\ pc[p] \in MutexPoints \ {"sync_record"}
    /\ mx = p
    /\ abort_sync_tasks
    /\ mx' = drop_sync_tasks_guard(p)
    /\ local' = [local EXCEPT ![p].aborted = TRUE]
    /\ Goto(p, AfterAbort(pc[p]))
    /\ UNCHANGED <<client, lockHolder, file, nextConn, syncCalls, budget,
                   observe, cleared, sess, saved, hb, fx, sy, vf, lg, pl>>

\* *tasks = vec![poll_task, sync_task] under the guard; Ok(())
start_sync_record_locked(p) ==
    /\ pc[p] = "sync_record"
    /\ mx = p
    /\ tracked' = SpawnedBy(local[p])
    /\ mx' = drop_sync_tasks_guard(p)
    /\ Finish(p, "start_sync", TRUE, "")
    /\ UNCHANGED <<client, lockHolder, file, running, nextConn, syncCalls,
                   budget, observe, cleared, sess, saved, hb, fx, sy, vf,
                   lg, pl>>

\* The steps of process p when both locks are taken and released one step
\* at a time.
LockStep(p) ==
    \/ Login(p, {"@alice:hs"})
    \/ Restore(p)
    \/ matrix_logout_invoked(p)
    \/ matrix_disconnect_invoked(p)
    \/ sync_tasks_lock(p)
    \/ abort_sync_tasks_locked(p)
    \/ matrix_logout_lock(p)
    \/ \E ok \in BOOLEAN : matrix_logout_remote(p, ok)
    \/ matrix_logout_clear(p)
    \/ matrix_logout_delete(p)
    \/ matrix_disconnect_clear(p)
    \/ start_sync_clone(p)
    \/ start_sync_spawn(p)
    \/ start_sync_record_locked(p)
    \/ HandleCommand(p, {"send_message"})

\* Commands issued concurrently by the UI.  The interleavings are explored
\* for one account and for one answer of each kind to a registration request.
FewFirst ==
    {Http(200, TRUE, NotArray, NoToken, "complete"),
     Http(401, TRUE, Arr(<<Arr(<<DUMMY>>)>>), "uiaa-session", "none"),
     Http(401, TRUE, Arr(<<Arr(<<EMAIL>>)>>), "uiaa-session", "none")}
FewRetry ==
    {Http(200, TRUE, NotArray, NoToken, "complete"),
     Http(403, TRUE, NotArray, NoToken, "none")}

Next == \E p \in Procs : Command(p, {"@alice:hs"}, FewFirst, FewRetry)
Init == InitWith(MaxConcCmds, FALSE) /\ OthersIdle
Spec == Init /\ [][Next]_vars

\* Commands issued one after the other: the next begins when the last returned.
InitSeq == InitWith(MaxSeqCmds, TRUE) /\ OthersIdle
NextSeq == Command(1, Users, FirstResponses(FewFlowLists), RetryResponses)
SpecSeq == InitSeq /\ [][NextSeq]_vars

\* Registration alone, against every challenge within the bounds.
NextReg == Register(1, Users, FirstResponses(FlowLists), RetryResponses)
SpecReg == InitSeq /\ [][NextReg]_vars

\* One call of with_heartbeat.
InitHeartbeat == SessionIdle /\ OthersIdle
NextHeartbeat == Heartbeat
SpecHeartbeat == InitHeartbeat /\ [][NextHeartbeat]_vars

\* The sync tasks at work while logins, start_syncs and disconnects are
\* issued one after the other for one account.
InitSync == InitWith(MaxSyncCmds, FALSE) /\ OthersIdle
NextSync ==
    \/ Login(1, {"@alice:hs"})
    \/ StartSync(1)
    \/ Disconnect(1)
    \/ SyncTask
SpecSync == InitSync /\ [][NextSync]_vars

\* strip_reply_fallback applied to one body.
InitStrip == SessionIdle /\ OthersIdle
NextStrip == \E body \in Pending(MessageBodies) : strip_applied(body)
SpecStrip == InitStrip /\ [][NextStrip]_vars

\* The two fallback functions applied to one well-formed reply body.
InitFallback == SessionIdle /\ OthersIdle
NextFallback ==
    \E w \in Pending(WellFormed) : fallback_extracted(w) \/ fallback_stripped(w)
SpecFallback == InitFallback /\ [][NextFallback]_vars

\* mxc_to_http applied to one homeserver URL and one media reference.
InitThumbnail == SessionIdle /\ OthersIdle
NextThumbnail ==
    \E h \in Pending(Homeservers), ref \in MediaRefs : thumbnail_url(h, ref)
SpecThumbnail == InitThumbnail /\ [][NextThumbnail]_vars

\* One presence resolution, by either command.
InitPresence == SessionIdle /\ OthersIdle
NextPresence ==
    \E latency \in Pending(0..MaxLatency), reply \in PresenceReplies :
        \E outcome \in presence_timeout(latency, reply) :
            \/ get_buddy_list_presence(latency, outcome)
            \/ get_user_profile_presence(latency, outcome)
SpecPresence == InitPresence /\ [][NextPresence]_vars

\* The verification commands, the driver tasks and the peer on one flow id,
\* with or without a handle, and a disconnect in between.
InitVerification ==
    /\ \/ /\ InitWith(MaxVerifyCmds, FALSE)
          /\ file = Absent
          /\ vf = NoVerification
       \/ /\ LoggedIn("@alice:hs", MaxVerifyCmds)
          /\ vf \in KnownFlows
    /\ hb = NoHb /\ fx = NoCall /\ sy = NoSync /\ lg = NoLog /\ pl = NoPoller /\ mx = 0
NextVerification ==
    \/ Disconnect(1)
    \/ AcceptVerification(1)
    \/ ConfirmVerification(1)
    \/ CancelVerification(1)
    \/ \E d \in 1..MaxDrivers : Driver(d)
    \/ Peer
SpecVerification == InitVerification /\ [][NextVerification]_vars

\* The runtime keeps running a spawned driver task: its sleeps end and the
\* SDK calls it awaits return.
SpecVerificationFair ==
    SpecVerification /\ \A d \in 1..MaxDrivers : WF_vars(Driver(d))

\* The commands that need the handle, issued concurrently with logins,
\* logouts and disconnects for one account, before anyone has logged in and
\* after a login.
InitHandle ==
    /\ \/ InitWith(MaxHandleCmds, FALSE) /\ file = Absent
       \/ LoggedIn("@alice:hs", MaxHandleCmds)
    /\ OthersIdle
NextHandle ==
    \E p \in Procs :
        \/ Login(p, {"@alice:hs"})
        \/ Logout(p)
        \/ Disconnect(p)
        \/ StartSync(p)
        \/ HandleCommand(p, HandleCommands)
        \/ AcceptVerification(p)
        \/ ConfirmVerification(p)
        \/ CancelVerification(p)
SpecHandle == InitHandle /\ [][NextHandle]_vars

\* Two writers push to the log while it is read.
InitLog == SessionIdle /\ hb = NoHb /\ fx = NoCall /\ sy = NoSync
           /\ vf = NoVerification /\ lg = NoLog /\ pl = NoPoller /\ mx = 0
NextLog == ServerLog
SpecLog == InitLog /\ [][NextLog]_vars

\* Commands that go to the network, issued concurrently for one account.
BoundedStep(p) ==
    \/ Login(p, {"@alice:hs"})
    \/ Register(p, {"@alice:hs"}, FewFirst, FewRetry)
    \/ Logout(p)
    \/ HandleCommand(p, {"get_buddy_list", "send_message"})
InitBounded == InitHandle
NextBounded == \E p \in Procs : BoundedStep(p)
SpecBounded == InitBounded /\ [][NextBounded]_vars

\* Where a command awaits the server with no tokio::time::timeout around the
\* await: the response bodies of the two registration requests
\* (resp.json().await on a reqwest client built without a timeout), the remote
\* logout, and the work of get_buddy_list (sync_once under with_heartbeat,
\* which loops until the future completes) and of send_message (room.send).
UntimedAwaits ==
    {"reg_first", "reg_retry", "logout_remote", "get_buddy_list",
     "send_message"}

\* A command in progress takes its next step; a step that awaits the server
\* without a timeout is taken when the server answers, and only then.
SpecBoundedFair ==
    /\ SpecBounded
    /\ \A p \in Procs :
          WF_vars(pc[p] \notin UntimedAwaits \cup {"idle"} /\ BoundedStep(p))

\* The same when the server answers every request.
SpecBoundedResponsive ==
    /\ SpecBounded
    /\ \A p \in Procs : WF_vars(pc[p] # "idle" /\ BoundedStep(p))

\* The background tasks at work while commands contend for the client mutex:
\* after a login, with a verification requested by the peer.
InitTasks ==
    /\ LoggedIn("@alice:hs", MaxTaskCmds)
    /\ vf = [NoVerification EXCEPT !.request = "requested"]
    /\ hb = NoHb /\ fx = NoCall /\ sy = NoSync /\ lg = NoLog /\ pl = NoPoller /\ mx = 0
NextTasks ==
    \/ \E p \in Procs :
          \/ StartSync(p)
          \/ AcceptVerification(p)
          \/ Logout(p)
          \/ HandleCommand(p, {"send_message"})
    \/ SyncTask
    \/ \E d \in 1..MaxDrivers : Driver(d)
    \/ Peer
SpecTasks == InitTasks /\ [][NextTasks]_vars

\* The poller from its spawn on, while rooms are joined and left.
InitPoll ==
    /\ SessionIdle
    /\ hb = NoHb /\ fx = NoCall /\ sy = NoSync /\ vf = NoVerification
    /\ lg = NoLog /\ mx = 0
    /\ \E S \in SUBSET RoomIds : pl = [NoPoller EXCEPT !.pc = "spawned",
                                                      !.joined = S]
NextPoll == PollTask
SpecPoll == InitPoll /\ [][NextPoll]_vars

\* Stripped membership events handed to the invite handler, one per run.
InitInvite == SessionIdle /\ OthersIdle
NextInvite == \E e \in Pending(MemberEvents) : route_invite(e)
SpecInvite == InitInvite /\ [][NextInvite]_vars

\* One message normalized by the history fetch or by the live handler.
InitNormalize == SessionIdle /\ OthersIdle
NextNormalize ==
    \E e \in Pending(NormEvents) : history_normalized(e) \/ live_normalized(e)
SpecNormalize == InitNormalize /\ [][NextNormalize]_vars

\* One call of fetch_media with a handle installed.
InitMedia == SessionIdle /\ OthersIdle
NextMedia == \E c \in Pending(MediaCalls) : media_fetched(c)
SpecMedia == InitMedia /\ [][NextMedia]_vars

\* Commands contending for the client mutex and the sync_tasks mutex, from
\* a fresh start or after a login.
InitLocks ==
    /\ \/ InitWith(MaxLockCmds, FALSE) /\ file = Absent
       \/ LoggedIn("@alice:hs", MaxLockCmds)
    /\ OthersIdle
NextLocks == \E p \in Procs : LockStep(p)
SpecLocks == InitLocks /\ [][NextLocks]_vars

\* accept_verification invoked up to MaxAccepts times for one inbound
\* request, with the drivers it spawns and the peer.
InitAccepts ==
    /\ LoggedIn("@alice:hs", MaxAccepts)
    /\ vf = [NoVerification EXCEPT !.request = "requested"]
    /\ hb = NoHb /\ fx = NoCall /\ sy = NoSync /\ lg = NoLog
    /\ pl = NoPoller /\ mx = 0
NextAccepts ==
    \/ AcceptAgain(1)
    \/ \E d \in 1..MaxAccepts : Driver(d)
    \/ Peer
SpecAccepts == InitAccepts /\ [][NextAccepts]_vars

\* One fetched history chunk turned into a page.
InitPage == SessionIdle /\ OthersIdle
NextPage == \E b \in Pending(Batches) : get_room_messages(b)
SpecPage == InitPage /\ [][NextPage]_vars

\* Live message events handed to the message handler, one per run.
InitRoute == SessionIdle /\ OthersIdle
NextRoute == \E e \in Pending(MessageEvents) : route_message(e)
SpecRoute == InitRoute /\ [][NextRoute]_vars

\* ------------------------------------------------------------- properties
Quiescent == \A p \in Procs : pc[p] = "idle"
Returned(p, c) == pc[p] = "idle" /\ result[p].cmd = c
Of(kind) == {t \in running : t.kind = kind}

\* C1: whenever no command is in progress and the handle is installed, a
\* persisted session record exists and names the handle's user id.
C1_HandleMatchesSession ==
    (Quiescent /\ client # NoClient) => file = client.user

\* C2: in logout and in disconnect the sync tasks are aborted before the
\* handle is cleared (from the abort up to the clearing step no tracked or
\* running task is left), and when the command has returned the tracked task
\* list and the handle are both empty.
C2_AbortThenClear ==
    /\ pc[1] \in {"logout_lock", "logout_remote", "logout_clear",
                  "disconnect_clear"}
         => (tracked = {} /\ running = {})
    /\ (pc[1] = "logout_delete" \/ Returned(1, "logout")
                                \/ Returned(1, "disconnect"))
         => (tracked = {} /\ running = {} /\ client = NoClient)

\* A logout that followed a login and a start_sync has returned.
C2_Witness ==
    /\ Returned(1, "logout")
    /\ syncCalls = 1
    /\ budget = MaxSeqCmds - 3
    /\ tracked = {} /\ client = NoClient

\* C3: no poller or sync-loop task that is still running was spawned from a
\* connection that logout or disconnect has cleared.
C3_NoTaskOnClearedConnection ==
    \A t \in running : t.conn \notin cleared

\* C4: a start_sync that returned successfully left exactly its own two
\* tasks, one poller and one sync loop, tracked and running, and nothing
\* else running; it had aborted every earlier task before it spawned.
C4_RestartLeavesTwoTasks ==
    /\ pc[1] = "sync_spawn" => (running = {} /\ tracked = {})
    /\ pc[1] = "sync_record" => (running = SpawnedBy(local[1]) /\ tracked = {})
    /\ (Returned(1, "start_sync") /\ result[1].ok)
         => /\ running = tracked
            /\ \E c \in 1..nextConn :
                 tracked = {Task(syncCalls, "poll", c),
                            Task(syncCalls, "sync", c)}

\* The second of two successful start_sync calls has returned.
C4_Witness ==
    /\ Returned(1, "start_sync") /\ result[1].ok
    /\ syncCalls = 2
    /\ Cardinality(running) = 2

\* C5: once every start_sync has returned, at most one sync loop and at most
\* one poller are running, and every running task is tracked.
C5_NoOverlappingSyncLoops ==
    Quiescent =>
        /\ Cardinality(Of("sync")) <= 1
        /\ Cardinality(Of("poll")) <= 1
        /\ running \subseteq tracked

\* C6: a logout that has returned has returned success, with the handle empty
\* and the session file deleted, whatever the remote logout call answered and
\* whether or not a handle was installed when it began.
C6_LogoutCompletesLocally ==
    Returned(1, "logout") =>
        /\ result[1].ok
        /\ client = NoClient
        /\ file = Absent

\* A logout whose remote logout call failed has returned.
C6_Witness ==
    /\ Returned(1, "logout")
    /\ local[1].remote = "failed"
    /\ result[1].ok
    /\ file = Absent

\* The errors of try_restore_session that come after the session file was
\* read and parsed: building the connection and re-applying the tokens.
RestoreConnectionErrors ==
    {"Session restore timed out", "Failed to build client",
     "Failed to restore session"}

\* C7 as stated: after a successful login or register that returned u, and
\* disconnects only, restore succeeds, returns u and installs a handle for u;
\* after a logout it fails with "No saved session".
C7_RoundTripAlwaysSucceeds ==
    /\ (Returned(1, "restore") /\ sess.kind = "in")
         => /\ result[1].ok
            /\ result[1].val = sess.user
            /\ client # NoClient /\ client.user = sess.user
    /\ (Returned(1, "restore") /\ sess.kind = "out")
         => (~result[1].ok /\ result[1].val = "No saved session")

\* C7: after a successful login or register that returned u, and no later
\* login, register or logout, a restore either succeeds, returns u and
\* installs a handle for u, or fails while rebuilding the connection or
\* re-applying the tokens; it never reports a missing or corrupt session.
\* After a logout it fails with "No saved session".
C7_RoundTrip ==
    /\ (Returned(1, "restore") /\ sess.kind = "in")
         => \/ /\ result[1].ok
               /\ result[1].val = sess.user
               /\ client # NoClient /\ client.user = sess.user
            \/ /\ ~result[1].ok
               /\ result[1].val \in RestoreConnectionErrors
    /\ (Returned(1, "restore") /\ sess.kind = "out")
         => (~result[1].ok /\ result[1].val = "No saved session")

\* A restore succeeded after the login's connection had been disconnected.
C7_Witness ==
    /\ Returned(1, "restore") /\ result[1].ok
    /\ sess.kind = "in" /\ result[1].val = sess.user
    /\ cleared # {}
    /\ client.user = sess.user

\* C8: while no command is in progress, a session that was persisted and not
\* since removed by a logout is still in the session file.
C8_SessionSurvives ==
    (pc[1] = "idle" /\ saved # "") => file = saved

\* C9: a step of restore_session never changes the session file, and changes
\* the handle only in the installing step of a call that returns success; the
\* call fails at once with "No saved session" exactly when the file is
\* absent, and fails with "Failed to parse session" when the file does not
\* parse.
RestorePcs == {"restore_read", "restore_build", "restore_apply",
               "restore_install"}

RestoreStep ==
    \/ pc[1] \in RestorePcs
    \/ /\ pc[1] = "idle"
       /\ budget' # budget
       /\ \/ pc'[1] = "restore_read"
          \/ pc'[1] = "idle" /\ result'[1].cmd = "restore"

C9_RestoreFailureModes ==
    [][RestoreStep =>
         /\ file' = file
         /\ client' # client
              => (pc[1] = "restore_install" /\ pc'[1] = "idle" /\ result'[1].ok)
         /\ (pc'[1] = "idle" /\ ~result'[1].ok) => client' = client
         /\ pc[1] = "idle"
              => (file = Absent
                    <=> /\ pc'[1] = "idle"
                        /\ ~result'[1].ok
                        /\ result'[1].val = "No saved session")
         /\ (pc[1] = "restore_read" /\ file = Corrupt)
              => /\ pc'[1] = "idle"
                 /\ ~result'[1].ok
                 /\ result'[1].val = "Failed to parse session"]_vars

\* A restore failed while re-applying the tokens, with a handle installed.
C9_Witness ==
    /\ Returned(1, "restore") /\ ~result[1].ok
    /\ result[1].val = "Failed to restore session"
    /\ client # NoClient
    /\ file = client.user

\* The first answer is a 401 whose challenge lists a flow that consists of
\* the dummy stage alone.
ChallengeListsDummyOnlyFlow(r) ==
    /\ r.kind = "http" /\ r.status = 401 /\ r.json
    /\ r.flows.isArray
    /\ \E i \in DOMAIN r.flows.items : r.flows.items[i] = Arr(<<DUMMY>>)

RetrySucceeded(r) == r.kind = "http" /\ r.status \in 200..299

\* C10 as stated: after such a challenge exactly two requests were sent, the
\* second with the dummy stage and the challenge's session, and register
\* succeeded iff the retry was answered with success.
C10_SucceedsIffRetrySucceeds ==
    /\ Len(local[1].sent) <= 2
    /\ (Returned(1, "register") /\ ChallengeListsDummyOnlyFlow(local[1].first))
         => /\ Len(local[1].sent) = 2
            /\ local[1].sent[2] =
                 [auth |-> DUMMY, session |-> local[1].first.session]
            /\ result[1].ok <=> RetrySucceeded(local[1].retry)

\* C10: after such a challenge exactly two requests were sent, the second
\* with the dummy stage and the challenge's session, never a third; register
\* succeeded iff the retry was answered with success, its body was JSON
\* carrying every field with a valid user id, and the session setup succeeded.
C10_RegistrationRetry ==
    /\ Len(local[1].sent) <= 2
    /\ (Returned(1, "register") /\ ChallengeListsDummyOnlyFlow(local[1].first))
         => /\ Len(local[1].sent) = 2
            /\ local[1].sent[1] = [auth |-> "none", session |-> NoToken]
            /\ local[1].sent[2] =
                 [auth |-> DUMMY, session |-> local[1].first.session]
            /\ result[1].ok
                 <=> /\ RetrySucceeded(local[1].retry)
                     /\ local[1].retry.json
                     /\ local[1].retry.body = "complete"
                     /\ local[1].finish = "ok"

\* A registration succeeded on its retry, which carried the session issued
\* with a challenge that lists an unsupported flow before the dummy one.
C10_Witness ==
    /\ Returned(1, "register") /\ result[1].ok
    /\ local[1].first.flows = Arr(<<Arr(<<EMAIL>>), Arr(<<DUMMY>>)>>)
    /\ local[1].first.session = "uiaa-session"
    /\ Len(local[1].sent) = 2
    /\ local[1].sent[2].session = "uiaa-session"

\* The unsupported-auth-flow error of matrix_register.
UnsupportedAuthFlow == "This server requires additional verification steps"

\* No flow of the list is the dummy stage alone (or there is no list).
NoDummyOnlyFlow(fl) ==
    ~fl.isArray \/ \A i \in DOMAIN fl.items : fl.items[i] # Arr(<<DUMMY>>)

\* What C11 promises of the step that handles the first answer r, when r
\* is a 401 without a usable flow and when r is another failure status.
RegistrationRefused(r, is401, msg) ==
    (r.kind = "http" /\ r.status \notin 200..299 /\ (r.status = 401) = is401
       /\ (is401 => NoDummyOnlyFlow(r.flows)))
      => /\ pc'[1] = "idle"
         /\ ~result'[1].ok /\ result'[1].val = msg
         /\ Len(local'[1].sent) = 1
         /\ file' = file /\ file' \notin Users
         /\ client' = client

\* C11 as stated: every first answer that is a 401 without a dummy-only flow
\* is refused with the unsupported-auth-flow error, every other failure
\* status with the server's error; no retry, no session, no handle.
C11_RefusedWhateverTheBody ==
    [][pc[1] = "reg_first" =>
         /\ RegistrationRefused(local'[1].first, TRUE, UnsupportedAuthFlow)
         /\ RegistrationRefused(local'[1].first, FALSE,
                                "Registration failed: server error")]_vars

\* C11: when the first answer has a JSON body, a 401 without a dummy-only
\* flow (the dummy stage among others, or no flow list) is refused with the
\* unsupported-auth-flow error and any other failure status with the server's
\* error; no retry is sent, no session is persisted, no handle is installed.
C11_NoUsableFlow ==
    [][(pc[1] = "reg_first" /\ local'[1].first.json) =>
         /\ RegistrationRefused(local'[1].first, TRUE, UnsupportedAuthFlow)
         /\ RegistrationRefused(local'[1].first, FALSE,
                                "Registration failed: server error")]_vars

\* A registration was refused on a challenge whose only flow holds the dummy
\* stage together with another stage.
C11_Witness ==
    /\ Returned(1, "register") /\ ~result[1].ok
    /\ result[1].val = UnsupportedAuthFlow
    /\ local[1].first.flows = Arr(<<Arr(<<DUMMY, EMAIL>>)>>)
    /\ Len(local[1].sent) = 1
    /\ file = Absent

\* The progress notices 5, 10, ..., 5n.
ProgressNotices(n) == [i \in 1..n |-> [kind |-> "still waiting", secs |-> 5 * i]]

\* What a call that made n progress notices has emitted when it returns,
\* with a final notice exactly when wantFinal.
HeartbeatOutput(n, wantFinal) ==
    /\ hb.ret = hb.op
    /\ hb.notices = ProgressNotices(n) \o
                    (IF wantFinal
                     THEN <<[kind |-> "completed after", secs |-> 5 * n]>>
                     ELSE <<>>)

\* C12 as stated: a call on an operation that completes after T seconds
\* returns the operation's output, has emitted one progress notice for each
\* full 5 s interval of T, and the final notice iff T >= 5.
C12_NoticePerFullInterval ==
    hb.phase = "returned" => HeartbeatOutput(hb.T \div 5, hb.T >= 5)

\* C12: the call returns the operation's output; it has emitted the progress
\* notices 5, 10, .., 5n, where n is the number of full 5 s intervals of T, or
\* one less when the operation completes at the very end of an interval; and
\* the final notice, reporting 5n seconds, iff n >= 1.
C12_Heartbeat ==
    hb.phase = "returned" =>
        \/ HeartbeatOutput(hb.T \div 5, hb.T \div 5 >= 1)
        \/ /\ hb.T % 5 = 0 /\ hb.T > 0
           /\ HeartbeatOutput(hb.T \div 5 - 1, hb.T \div 5 - 1 >= 1)

\* An operation that took 12 s has returned after two progress notices.
C12_Witness ==
    /\ hb.phase = "returned" /\ hb.T = 12 /\ hb.op = "Err" /\ hb.ret = "Err"
    /\ Len(hb.notices) = 3
    /\ hb.notices[3] = [kind |-> "completed after", secs |-> 10]

Emitted(kind) == {i \in DOMAIN fx.out : fx.out[i].kind = kind}

\* C13: for a live message event that carries a replacement relation the
\* handler emits no new-message notification; when the event is unredacted
\* and the new content is text, notice or emote it emits exactly one
\* notification, a message-edited one keyed by the replaced event's id.
C13_LiveEditSuppressed ==
    (fx.fn = "room_message_handler" /\ fx.arg.rel = "replacement") =>
        /\ Emitted("new_message") = {}
        /\ (fx.arg.original /\ fx.arg.newtype \in {"text", "notice", "emote"})
             => /\ Len(fx.out) = 1
                /\ fx.out[1].kind = "message_edited"
                /\ fx.out[1].key = fx.arg.target

\* An edit of $e1, sent as event $e2 with emote content, was handled.
C13_Witness ==
    /\ fx.fn = "room_message_handler"
    /\ fx.arg.rel = "replacement" /\ fx.arg.original
    /\ fx.arg.id = "$e2" /\ fx.arg.target = "$e1" /\ fx.arg.newtype = "emote"
    /\ fx.out = <<[kind |-> "message_edited", key |-> "$e1", what |-> "emote"]>>

\* C14: an inbound event delivered by a sync round results in exactly one
\* notification when its category's handler reports it, never two or more.
C14_ExactlyOnce ==
    sy.round = "ok" =>
        /\ Len(sy.out) <= 1
        /\ event_handlers(sy.event) # <<>> => Len(sy.out) = 1

\* C15: a sync round that fails is logged and leaves every task running;
\* a sync task stops running only in a step that aborts the tracked tasks.
C15_SyncLoopResilient ==
    [][/\ (sy'.rounds = sy.rounds + 1 /\ sy'.round = "failed")
            => /\ sy'.errors = sy.errors + 1
               /\ running' = running
       /\ \A t \in running :
            (t.kind = "sync" /\ t \notin running')
               => /\ t \in tracked /\ tracked' = {}
                  /\ pc[1] \in {"idle", "sync_abort"}
                  /\ pc'[1] \in {"logout_lock", "disconnect_clear",
                                 "sync_spawn"}]_vars

\* A task ran a successful round after a failed one.
C15_Witness ==
    /\ sy.rounds = 2 /\ sy.errors = 1 /\ sy.round = "ok"
    /\ sy.task \in running
    /\ sy.registered = {sy.task}
    /\ sy.out # <<>>

\* The positions of the chunk's messages, newest first.
MessagePositions(chunk) == {i \in DOMAIN chunk : chunk[i].kind = "message"}

\* C16: the page holds exactly the chunk's messages, oldest first, and no
\* edit; a message's body is the new body of each collected edit that names
\* its event id, and its own body when no collected edit names it.
C16_HistoryEdits ==
    fx.fn = "get_room_messages" =>
        LET chunk == fx.arg
            page == fx.out
            pos == MessagePositions(chunk)
        IN  /\ Len(page) = Cardinality(pos)
            /\ \A i \in pos :
                 LET k == Cardinality({j \in pos : j >= i})
                     edits == {j \in DOMAIN chunk :
                                 /\ chunk[j].kind = "edit"
                                 /\ chunk[j].body # ""
                                 /\ chunk[j].id = chunk[i].id}
                 IN  /\ page[k].id = chunk[i].id
                     /\ \A j \in edits : page[k].body = chunk[j].body
                     /\ edits = {} => page[k].body = chunk[i].body

\* C17: stripping a stripped body changes nothing, and stripping a body
\* that does not begin with a quoted line returns the body.
C17_StripIdempotent ==
    fx.fn = "strip_reply_fallback" =>
        /\ strip_reply_fallback(fx.out) = fx.out
        /\ ~StartsWith(fx.arg, <<">", " ">>) => fx.out = fx.arg

\* What extraction is to return for a well-formed body: the sender, and the
\* quoted lines joined by line breaks and trimmed.
ExtractedAsWritten(w) ==
    fx.out = ReplyFallback(w.sender, Trim(Join(w.quoted)))

\* The reply text without its final line break, when it ends in one.
LessFinalBreak(text) ==
    IF text # <<>> /\ text[Len(text)] = NL
    THEN SubSeq(text, 1, Len(text) - 1)
    ELSE text

EndsWith(str, suf) ==
    Len(str) >= Len(suf)
        /\ SubSeq(str, Len(str) - Len(suf) + 1, Len(str)) = suf

\* The reference has the form mxc://server/id: the scheme, then a '/'
\* somewhere after it.
IsMxcReference(ref) ==
    /\ Len(ref) >= Len(MxcScheme)
    /\ \A i \in 1..Len(MxcScheme) : ref[i] = MxcScheme[i]
    /\ \E i \in (Len(MxcScheme) + 1)..Len(ref) : ref[i] = "/"

\* C19: for a reference mxc://server/id the thumbnail URL is the same for a
\* homeserver URL and for that URL followed by '/', and ends with
\* width=96&height=96&method=crop; any other reference yields no URL.
C19_ThumbnailUrl ==
    fx.fn = "mxc_to_http" =>
        IF IsMxcReference(fx.arg.mxc_url)
        THEN /\ fx.out.plain.some
             /\ fx.out.slashed = fx.out.plain
             /\ EndsWith(fx.out.plain.url, Tail(ThumbnailQuery))
        ELSE fx.out.plain = NoUrl /\ fx.out.slashed = NoUrl

C19_Witness ==
    /\ fx.fn = "mxc_to_http"
    /\ fx.arg.homeserver = <<"h">>
    /\ fx.arg.mxc_url = MxcScheme \o <<"s", "/", "i">>
    /\ fx.out.slashed = Url(<<"h">> \o ThumbnailPath \o <<"s", "/", "i">>
                                \o ThumbnailQuery)

\* A presence resolution has been made.
PresenceResolved == fx.fn \in {"fetch_user_presence", "get_user_profile"}

\* The response was successful and is not stub data: it has an activity
\* timestamp, or a currently-active flag, or a state other than offline.
RealPresence(outcome) ==
    /\ outcome.kind = "ok"
    /\ \/ outcome.response.last_active_ago # "none"
       \/ outcome.response.currently_active # "none"
       \/ outcome.response.presence # "offline"

\* The state a real response is reported as.
ReportedState(outcome) ==
    IF outcome.response.presence = "online" THEN "online"
    ELSE IF outcome.response.presence = "unavailable" THEN "away"
    ELSE "offline"

Returns(p, c) ==
    /\ pc'[p] = "idle"
    /\ result'[p].cmd = c
    /\ pc[p] # "idle" \/ budget' # budget

\* C21: every invocation of cancel_verification with a handle and a valid
\* user id emits the Cancelled notification, whatever the state of the flow
\* and whether or not the cancel or mismatch call succeeds.
C21_CancelAlwaysEmits ==
    [][\A p \in Procs :
          /\ Returns(p, "cancel_verification")
          /\ result'[p].val \notin {"Not logged in", "Invalid user_id"}
          => vf'.out = Append(vf.out, Notification(CANCELLED, ""))]_vars

\* The driver tasks spawned so far.
Drivers == DOMAIN vf.drivers

TimedOut(reason) == Notification(CANCELLED, reason)

\* C23: a driver emits nothing before it terminates and exactly one
\* notification when it does: TimedOut when phase 1 ends without a key
\* exchange, the code set when the codes are there in phase 2, TimedOut
\* when phase 2 ends without them.
C23_DriverOutcome ==
    /\ [](\A d \in Drivers :
             IF vf.drivers[d].pc = "ended"
             THEN Len(vf.drivers[d].out) = 1
             ELSE vf.drivers[d].out = <<>>)
    /\ [][\A d \in Drivers :
             vf'.drivers[d].out # vf.drivers[d].out =>
                 /\ vf'.drivers[d].pc = "ended"
                 /\ vf'.out = Append(vf.out, vf'.drivers[d].out[1])
                 /\ vf'.drivers[d].out[1] =
                        IF vf.drivers[d].pc = "p1"
                        THEN TimedOut("Timed out starting SAS")
                        ELSE IF vf.drivers[d].i < Phase2Polls
                        THEN Notification(EMOJIS, "")
                        ELSE TimedOut("Timed out waiting for emojis")
                 /\ vf.drivers[d].pc = "p1"
                        => /\ vf.drivers[d].sas_opt = "none"
                           /\ vf.drivers[d].i = Phase1Polls
                 /\ vf.drivers[d].pc = "p2"
                        => /\ vf.drivers[d].sas_opt # "none"
                           /\ vf.drivers[d].i < Phase2Polls
                                  => vf.sas = "codes"]_vars

\* The codes came up in the last poll of phase 2.
C23_Witness ==
    /\ 1 \in Drivers
    /\ vf.drivers[1].pc = "ended"
    /\ vf.drivers[1].i = Phase2Polls - 1
    /\ vf.drivers[1].out = <<Notification(EMOJIS, "")>>

\* C24: confirm_verification emits Confirmed exactly when sas.confirm()
\* succeeded; without a handle, for an unknown flow, for a verification
\* that is not SAS and when confirm() fails it returns an error and emits
\* nothing.
C24_ConfirmEmitsIffFinalized ==
    [][\A p \in Procs :
          Returns(p, "confirm_verification") =>
              LET finalized ==
                      /\ pc[p] = "confirm_send"
                      /\ client # NoClient
                      /\ IsSas(vf.sas)
                      /\ vf'.call = SdkCall("confirm", TRUE)
              IN  /\ result'[p].ok <=> finalized
                  /\ vf'.out = IF finalized
                               THEN Append(vf.out, Notification(DONE, ""))
                               ELSE vf.out]_vars

C24_Witness ==
    /\ result[1] = [cmd |-> "confirm_verification", ok |-> TRUE, val |-> ""]
    /\ vf.call = SdkCall("confirm", TRUE)
    /\ vf.sas = "done"
    /\ vf.out # <<>>
    /\ vf.out[Len(vf.out)] = Notification(DONE, "")

\* C25: after Confirmed, Cancelled or TimedOut has been emitted for the
\* flow no further notification is emitted for it.
C25_TerminalIsFinal ==
    \A k \in 1..Len(vf.out) :
        vf.out[k].event \in {DONE, CANCELLED} => k = Len(vf.out)

\* C26 (Not authenticated).  A command that needs the handle and is invoked
\* while the handle is empty returns the error "Not logged in" at once, and
\* leaves the handle, the tracked tasks, the running tasks and the persisted
\* session as they were.
HandleRequiring ==
    HandleCommands \cup {"start_sync", "accept_verification",
                         "confirm_verification", "cancel_verification"}

InvokesHandleCommand(p) ==
    \/ \E c \in HandleCommands : handle_command_lock(p, c)
    \/ start_sync_clone(p)
    \/ \E uidOk \in BOOLEAN :
          \/ accept_verification_clone(p, uidOk)
          \/ confirm_verification_lock(p, uidOk)
          \/ cancel_verification_lock(p, uidOk)

C26_NotAuthenticated ==
    [][\A p \in Procs :
          (client = NoClient /\ InvokesHandleCommand(p)) =>
              /\ pc'[p] = "idle"
              /\ result'[p].cmd \in HandleRequiring
              /\ ~result'[p].ok
              /\ result'[p].val = "Not logged in"
              /\ UNCHANGED <<client, lockHolder, tracked, running, file>>]_vars

\* A message is refused after the logout that followed a login.
C26_Witness ==
    /\ client = NoClient
    /\ sess.kind = "out"
    /\ cleared # {}
    /\ result[1] = [cmd |-> "send_message", ok |-> FALSE,
                    val |-> "Not logged in"]
    /\ result[2] = [cmd |-> "logout", ok |-> TRUE, val |-> ""]

\* C27 (ServerLog bound).  After n pushes the log holds exactly the most recent
\* min(n, 500) entries, in the order they were pushed, and get_all returns at
\* most 500 entries, also when pushes are made concurrently.
Min(a, b) == IF a < b THEN a ELSE b

MostRecent(n, k) == [i \in 1..k |-> n - k + i]

C27_LogBound ==
    /\ Len(lg.entries) <= LogCapacity
    /\ lg.entries = MostRecent(lg.pushed, Min(lg.pushed, LogCapacity))
    /\ Len(lg.snapshot) <= LogCapacity

\* The oldest entries have been dropped, a writer waits for the mutex, and the
\* log has been read since the last push.
C27_Witness ==
    /\ lg.pushed > LogCapacity + 1
    /\ Len(lg.entries) = LogCapacity
    /\ lg.entries[1] = lg.pushed - LogCapacity + 1
    /\ lg.building # {}
    /\ lg.snapshot = lg.entries

\* C28 (Phase-1 race with the peer).  An iteration of phase 1 that the driver
\* enters when the peer has started the key exchange goes through the lookup,
\* adopts the peer's exchange and ends in phase 2; the driver does not come
\* back to the head of the loop, where start_sas is called again.
PeerHasStarted == vf.sas \in {"started", "codes"}

C28_AdoptsPeerExchange ==
    [][\A d \in DOMAIN vf.drivers :
          LET before == vf.drivers[d]
              after == vf'.drivers[d]
              adopted == after.pc = "p2" /\ after.sas_opt = "peer"
          IN  (PeerHasStarted /\ after # before) =>
                  /\ (before.pc = "p1" /\ before.i < Phase1Polls) =>
                         (after.pc = "p1_lookup" \/ adopted)
                  /\ before.pc = "p1_lookup" => adopted]_vars

\* C29 (Bounded commands).  Every command that has begun returns, whether or
\* not the server answers, and a logout that has begun clears the handle.
C29_BoundedCommands ==
    \A p \in Procs :
        /\ (pc[p] # "idle") ~> (pc[p] = "idle")
        /\ (pc[p] = "logout_lock") ~> (client = NoClient)

\* C30 (Background tasks never hold the handle lock).  The client mutex is
\* held only by a command between its lock and its return; start_sync and
\* accept_verification do not hold it when they spawn or afterwards; and no
\* step of the sync loop or of a verification driver takes the mutex or
\* waits for it.
HoldsLockAt ==
    {"logout_remote", "logout_clear", "logout_delete", "send_message",
     "confirm_send", "cancel_send"}

Spawning == {"sync_abort", "sync_spawn", "sync_record", "accept_request"}

TaskStep == sy' # sy \/ vf'.drivers # vf.drivers

SpawnStep == running' \ running # {} \/ Len(vf'.drivers) > Len(vf.drivers)

C30_TasksNeverHoldLock ==
    /\ [](\A p \in Procs :
             /\ lockHolder = p => pc[p] \in HoldsLockAt
             /\ pc[p] \in Spawning => lockHolder # p)
    /\ [][/\ TaskStep => lockHolder' = lockHolder
          /\ SpawnStep => \A p \in Procs :
                              pc[p] \in Spawning => lockHolder # p]_vars

\* A message is being sent under the mutex by one process, the other has
\* spawned a driver, and the driver has polled since.
C30_Witness ==
    /\ lockHolder = 2
    /\ pc[2] = "send_message"
    /\ result[1] = [cmd |-> "accept_verification", ok |-> TRUE, val |-> ""]
    /\ Len(vf.drivers) > 0
    /\ vf.drivers[1].pc = "p1"
    /\ vf.drivers[1].i > 1

\* C31 (Room-list polling).  A poll emits one rooms_changed notification when
\* the joined-room ids it reads differ from those read by the poll before it
\* (by the start of the task for the first poll), and nothing when they are
\* equal.
C31_EmitsIffChanged ==
    [][pl'.polls = pl.polls + 1 =>
          pl'.out = IF pl.joined # pl.last
                    THEN Append(pl.out, ROOMS_CHANGED)
                    ELSE pl.out]_vars

\* A poll that found a change and emitted is followed by a poll that found
\* the same rooms and emitted nothing, with rooms other than the initial ones.
C31_Witness ==
    /\ pl.polls = 3
    /\ Len(pl.out) = 2
    /\ pl.joined = pl.last
    /\ pl.known = pl.last
    /\ pl.joined = {"!a:hs"}

\* C32 (Invite notifications target self).  The invite handler emits a
\* room_invite notification only for an event whose membership is invite and
\* whose state_key is the logged-in user.
C32_InviteTargetsSelf ==
    (fx.fn = "invite_handler" /\ Emitted("room_invite") # {}) =>
        /\ fx.arg.membership = "invite"
        /\ fx.arg.state_key = Me

\* C33 (Reply target, live and history).  For the same event the live handler
\* and the history fetch find the same reply target in step 2: the typed
\* relation's, else the raw payload's.
C33_SameReplyTarget ==
    fx.fn \in {"history", "live"} =>
        live_in_reply_to(fx.arg) = history_in_reply_to(fx.arg)

\* C34 (Unrecognized subtypes).  A message whose subtype is none of text,
\* notice, emote, image, file, audio and video becomes one message with an
\* empty body and the type "unknown", in the history page and as a live
\* new_message notification alike.
C34_UnknownSubtype ==
    (fx.fn \in {"history", "live"} /\ fx.arg.msgtype \notin Recognized) =>
        /\ Len(fx.out) = 1
        /\ fx.out[1].body = <<>>
        /\ fx.out[1].msg_type = "unknown"

\* The reply target step 2 found for the normalized event, and whether the
\* payload is of a text subtype other than emote and begins with "> <".
FoundInStep2 ==
    IF fx.fn = "history" THEN history_in_reply_to(fx.arg)
    ELSE live_in_reply_to(fx.arg)

Marker == <<">", " ", "<">>

Normalized == fx.fn \in {"history", "live"} /\ fx.out # <<>>

\* C35 as stated: a normalized message carries the sentinel exactly when its
\* type is text, its payload body begins with "> <" and step 2 found no
\* target.
C35_SentinelIffMarkedPayload ==
    Normalized =>
        (fx.out[1].in_reply_to = Some(FALLBACK)
            <=> /\ fx.out[1].msg_type = "text"
                /\ StartsWith(fx.arg.body, Marker)
                /\ FoundInStep2 = None)

\* C35 (Reply sentinel).  A normalized message carries the sentinel exactly
\* when its subtype is text or notice, its body begins with "> <" and step 2
\* found no target, or when step 2 itself found the string "fallback"; a
\* target found in step 2 is kept as it is; and a message that is not of
\* subtype text or notice with a body beginning with "> <" has no quoted
\* sender and no quoted text.
C35_ReplySentinel ==
    Normalized =>
        LET marked == /\ fx.arg.msgtype \in {"text", "notice"}
                      /\ StartsWith(fx.arg.body, Marker)
            m == fx.out[1]
        IN  /\ m.in_reply_to = Some(FALLBACK)
                 <=> \/ marked /\ FoundInStep2 = None
                     \/ FoundInStep2 = Some(FALLBACK)
            /\ FoundInStep2 # None => m.in_reply_to = FoundInStep2
            /\ ~marked => m.reply_sender_name = None /\ m.reply_body = None

\* A live notice that quotes @a, whose relation the typed parser does not
\* read as a reply, gets the sentinel, the quoted sender and the reply text.
C35_Witness ==
    /\ fx.fn = "live"
    /\ fx.arg.msgtype = "notice"
    /\ fx.arg.rel = "other" /\ fx.arg.raw = "$e1"
    /\ fx.out # <<>>
    /\ fx.out[1].in_reply_to = Some(FALLBACK)
    /\ fx.out[1].reply_sender_name = Some(<<"a">>)
    /\ fx.out[1].reply_body = Some(<<"a">>)
    /\ fx.out[1].body = <<"a">>

\* C36 (Media fetch order and failure).  fetch_media requests the
\* authenticated endpoint first and the unauthenticated one only after it;
\* it returns the data of the first of them, in that order, that answers
\* with a success status and a body that arrives and is not empty, and it
\* fails exactly when neither does.
Good(a) ==
    /\ a.kind = "response"
    /\ a.status \in 200..299
    /\ a.read
    /\ Len(a.bytes) > 0

C36_MediaFetch ==
    fx.fn = "fetch_media" =>
        LET c == fx.arg
            r == fx.out
            good == {i \in 1..2 : Good(c.answers[i])}
            tried == c.mxc = "ok" /\ c.token
        IN  /\ r.requested \in {<<>>, <<AUTHENTICATED>>,
                                <<AUTHENTICATED, UNAUTHENTICATED>>}
            /\ tried <=> r.requested # <<>>
            /\ tried =>
                 /\ r.ok <=> good # {}
                 /\ r.ok =>
                      LET i == CHOOSE i \in good : \A j \in good : i <= j
                      IN  /\ r.val.encodes = c.answers[i].bytes
                          /\ Len(r.requested) = i
                 /\ ~r.ok => r.val = "Failed to fetch media from any endpoint"
            /\ ~tried => ~r.ok

\* The authenticated endpoint answered 200 with an empty body and the
\* unauthenticated one with a PNG, which is returned.
C36_Witness ==
    /\ fx.fn = "fetch_media"
    /\ fx.arg.answers[1] = Answer(200, TRUE, <<>>)
    /\ fx.arg.answers[2] = Answer(200, TRUE, <<137, 80, 78, 71, 1>>)
    /\ fx.out.ok
    /\ fx.out.val = [content_type |-> "image/png",
                     encodes |-> <<137, 80, 78, 71, 1>>]
    /\ fx.out.requested = <<AUTHENTICATED, UNAUTHENTICATED>>

\* C37 (Newest edit wins in a history batch).  When a chunk holds several
\* edits of one message, the page shows that message with the new body of
\* the newest of them, the one that comes first in the newest-first chunk.
C37_NewestEditWins ==
    fx.fn = "get_room_messages" =>
        LET chunk == fx.arg
            page == fx.out
        IN  \A i \in MessagePositions(chunk) :
               LET k == Cardinality({j \in MessagePositions(chunk) : j >= i})
                   edits == {j \in DOMAIN chunk :
                               /\ chunk[j].kind = "edit"
                               /\ chunk[j].body # ""
                               /\ chunk[j].id = chunk[i].id}
               IN  edits # {} =>
                      LET newest == CHOOSE j \in edits : \A h \in edits : j <= h
                      IN  page[k].body = chunk[newest].body

\* C38 (Sync tasks follow the installed handle).  Every poller or sync-loop
\* task that has not been aborted was spawned from the connection that is
\* installed as the handle; a login, register or restore that installs a
\* new connection leaves no task of the old one running.
C38_TasksFollowHandle ==
    \A t \in running : t.conn = client.conn

\* C39 (No deadlock between the two locks).  A command that holds the
\* sync_tasks mutex is inside one of the synchronous blocks that took it:
\* it neither waits for the client mutex nor is suspended; and every command
\* in progress can take a step, or waits for a lock whose holder can.
C39_NoLockDeadlock ==
    /\ \A p \in Procs : mx = p => pc[p] \in MutexPoints /\ lockHolder # p
    /\ \A p \in Procs :
          pc[p] # "idle" =>
             \/ ENABLED LockStep(p)
             \/ \E q \in Procs \ {p} :
                   /\ lockHolder = q \/ mx = q
                   /\ ENABLED LockStep(q)

\* A start_sync holds the sync_tasks mutex to record its tasks while a
\* logout holds the client mutex.
C39_Witness ==
    /\ mx = 2 /\ pc[2] = "sync_record"
    /\ lockHolder = 1 /\ pc[1] = "logout_remote"

\* C40 (At most one code-set notification per flow).  However often
\* accept_verification is invoked for the flow, verification_emojis is
\* emitted for it at most once.
C40_EmojisAtMostOnce ==
    Cardinality({i \in DOMAIN vf.out : vf.out[i].event = EMOJIS}) <= 1

====
